---------------------------- MODULE Spec2Model ----------------------------
(***************************************************************************)
(* P.H.A.N.I.X FORENSIC-QR-ARCHITECT: the generator (canonicalisation,     *)
(* digest, report formatting), the scanner (processScan, the forensic      *)
(* analysis engine) and the still-image decode pipeline of                 *)
(* src/src/ForensicQRGenerator.jsx, as a state machine over the React      *)
(* state of the component.  Texts are TLA+ strings; the JavaScript string  *)
(* methods the code uses are defined character by character below.         *)
(***************************************************************************)
EXTENDS Integers, Sequences, FiniteSets, TLC

(***************************************************************************)
(* JavaScript string primitives                                            *)
(***************************************************************************)
Ch(s, i) == SubSeq(s, i, i)

\* The white space String.prototype.trim removes (the members that occur here).
WhiteSpace == {" ", "\n", "\t", "\r"}

RECURSIVE FirstNonWs(_, _)
FirstNonWs(s, i) ==
  IF i > Len(s) THEN i
  ELSE IF Ch(s, i) \in WhiteSpace THEN FirstNonWs(s, i + 1) ELSE i

RECURSIVE LastNonWs(_, _)
LastNonWs(s, i) ==
  IF i < 1 THEN i
  ELSE IF Ch(s, i) \in WhiteSpace THEN LastNonWs(s, i - 1) ELSE i

\* String.prototype.trim
trim(s) == SubSeq(s, FirstNonWs(s, 1), LastNonWs(s, Len(s)))

\* String.prototype.indexOf, 1-based; 0 when k does not occur in s.
indexOf(s, k) ==
  LET at == {i \in 1..(Len(s) - Len(k) + 1) : SubSeq(s, i, i + Len(k) - 1) = k}
  IN  IF at = {} THEN 0 ELSE CHOOSE i \in at : \A j \in at : i <= j

\* String.prototype.includes
includes(s, k) == indexOf(s, k) # 0

\* String.prototype.startsWith
startsWith(s, k) == Len(s) >= Len(k) /\ SubSeq(s, 1, Len(k)) = k

\* String.prototype.endsWith
endsWith(s, k) == Len(s) >= Len(k) /\ SubSeq(s, Len(s) - Len(k) + 1, Len(s)) = k

\* The positions at which k occurs in s.
occurrences(s, k) == {i \in 1..(Len(s) - Len(k) + 1) : SubSeq(s, i, i + Len(k) - 1) = k}

\* The pieces of s from position from on, cut at the leftmost occurrences of
\* sep that do not overlap; at lists the occurrences of sep in s.
RECURSIVE splitFrom(_, _, _, _)
splitFrom(s, sep, at, from) ==
  LET rest == {i \in at : i >= from}
  IN  IF rest = {} THEN <<SubSeq(s, from, Len(s))>>
      ELSE LET i == CHOOSE x \in rest : \A y \in rest : x <= y
           IN  <<SubSeq(s, from, i - 1)>> \o splitFrom(s, sep, at, i + Len(sep))

\* String.prototype.split with a non-empty separator: a sequence of strings.
split(s, sep) == splitFrom(s, sep, occurrences(s, sep), 1)

\* Array.prototype.join
RECURSIVE join(_, _)
join(parts, sep) ==
  IF Len(parts) = 0 THEN ""
  ELSE IF Len(parts) = 1 THEN parts[1]
  ELSE parts[1] \o sep \o join(Tail(parts), sep)

LowerCase == "abcdefghijklmnopqrstuvwxyz"
UpperCase == "ABCDEFGHIJKLMNOPQRSTUVWXYZ"

UpperOf(c) ==
  LET i == indexOf(LowerCase, c) IN IF i = 0 THEN c ELSE Ch(UpperCase, i)

\* String.prototype.toUpperCase
RECURSIVE toUpperCase(_)
toUpperCase(s) ==
  IF Len(s) = 0 THEN ""
  ELSE IF Len(s) = 1 THEN UpperOf(s)
  ELSE toUpperCase(SubSeq(s, 1, Len(s) \div 2))
       \o toUpperCase(SubSeq(s, (Len(s) \div 2) + 1, Len(s)))

(***************************************************************************)
(* JSON.stringify and CryptoJS.SHA256                                      *)
(***************************************************************************)
\* JSON.stringify escapes of a string's characters.
EscapeChar(c) ==
  IF c = "\"" THEN "\\\""
  ELSE IF c = "\\" THEN "\\\\"
  ELSE IF c = "\n" THEN "\\n"
  ELSE IF c = "\t" THEN "\\t"
  ELSE IF c = "\r" THEN "\\r"
  ELSE c

RECURSIVE Escape(_)
Escape(s) ==
  IF Len(s) = 0 THEN ""
  ELSE IF Len(s) = 1 THEN EscapeChar(s)
  ELSE Escape(SubSeq(s, 1, Len(s) \div 2)) \o Escape(SubSeq(s, (Len(s) \div 2) + 1, Len(s)))

\* JSON.stringify of a string
JSONString(s) == "\"" \o Escape(s) \o "\""

\* JSON.stringify of one canonical section {title, content}
JSONSection(sec) ==
  "{\"title\":" \o JSONString(sec.title) \o ",\"content\":" \o JSONString(sec.content) \o "}"

RECURSIVE JSONSections(_)
JSONSections(secs) ==
  IF Len(secs) = 0 THEN ""
  ELSE IF Len(secs) = 1 THEN JSONSection(secs[1])
  ELSE JSONSection(secs[1]) \o "," \o JSONSections(Tail(secs))

\* JSON.stringify(payload) with the key order of the payload literal
\* { op, bid, role, src, uid, ts, sec }.
JSONStringify(p) ==
  "{\"op\":" \o JSONString(p.op) \o ",\"bid\":" \o JSONString(p.bid)
  \o ",\"role\":" \o JSONString(p.role) \o ",\"src\":" \o JSONString(p.src)
  \o ",\"uid\":" \o JSONString(p.uid) \o ",\"ts\":" \o JSONString(p.ts)
  \o ",\"sec\":[" \o JSONSections(p.sec) \o "]}"

\* The characters of the texts of this model, in a fixed order; a character's
\* code is its position.
CodeChars ==
  " !\"#$%&'()*+,-./0123456789:;<=>?@ABCDEFGHIJKLMNOPQRSTUVWXYZ[\\]^_abcdefghijklmnopqrstuvwxyz{|}~\n\t\r█"

HexDigits == "0123456789abcdef"

CharCode == [c \in {Ch(CodeChars, i) : i \in 1..Len(CodeChars)} |-> indexOf(CodeChars, c)]

HexByte(c) ==
  LET n == CharCode[c] IN Ch(HexDigits, (n \div 16) + 1) \o Ch(HexDigits, (n % 16) + 1)

RECURSIVE HexEncode(_)
HexEncode(s) ==
  IF Len(s) = 0 THEN ""
  ELSE IF Len(s) = 1 THEN HexByte(s)
  ELSE HexEncode(SubSeq(s, 1, Len(s) \div 2))
       \o HexEncode(SubSeq(s, (Len(s) \div 2) + 1, Len(s)))

\* CryptoJS.SHA256(s).toString(): a lowercase hex digest.  The hash is taken
\* as collision free: distinct messages have distinct digests, which an
\* injective hex encoding of the message provides.
SHA256(s) ==
  IF s = "" THEN "e3b0c44298fc1c149afbf4c8996fb92427ae41e4649b934ca495991b7852b855"
  ELSE HexEncode(s)

(***************************************************************************)
(* Date: toISOString values are 24 characters, YYYY-MM-DDTHH:MM:SS.mmmZ.    *)
(* toLocaleString is rendered as the en-US locale renders it in UTC.       *)
(***************************************************************************)
Digits == "0123456789"

DigitVal(c) == indexOf(Digits, c) - 1

\* Number of a two-digit field of an ISO timestamp.
TwoDigits(s) == DigitVal(Ch(s, 1)) * 10 + DigitVal(Ch(s, 2))

\* new Date(timestamp).toLocaleString(): "M/D/YYYY, h:MM:SS AM|PM"
toLocaleString(ts) ==
  LET month == TwoDigits(SubSeq(ts, 6, 7))
      day   == TwoDigits(SubSeq(ts, 9, 10))
      hour  == TwoDigits(SubSeq(ts, 12, 13))
      h12   == IF hour % 12 = 0 THEN 12 ELSE hour % 12
  IN  ToString(month) \o "/" \o ToString(day) \o "/" \o SubSeq(ts, 1, 4) \o ", "
      \o ToString(h12) \o SubSeq(ts, 14, 19) \o (IF hour < 12 THEN " AM" ELSE " PM")

\* new Date().getFullYear(), as a string
getFullYear(ts) == SubSeq(ts, 1, 4)

(***************************************************************************)
(* Null and the literal strings of the component                           *)
(***************************************************************************)
Null == [type |-> "null"]

MarkerFamily    == "FORENSIC-QR-ARCHITECT"
MarkerManifest  == "[ EVIDENCE MANIFEST ]"
MarkerSignature == "[ CRYPTOGRAPHIC SIGNATURE ]"
MarkerHashLabel == "SHA-256 HASH:"

RuleDouble == "================================"
RuleSingle == "--------------------------------"

MsgRequiredFields ==
  "Please fill in all required fields (Name, Badge ID, Role, Evidence Source)."
MsgDecodeFailure ==
  "Forensic Analysis Failure: QR pattern unreadable or corrupted."
MsgCameraDenied ==
  "Camera access denied or unavailable. Check permissions."

(***************************************************************************)
(* generatePackage: canonicalisation, digest and report text               *)
(***************************************************************************)
\* const finalEvidenceSource = locationDetails ? `${..} [ ${..} ]` : evidenceSource
finalEvidenceSource(source, details) ==
  IF details # ""
  THEN source \o " [ " \o details \o " ]"
  ELSE source

\* sections.map(s => ({ title: s.title.trim().toUpperCase(), content: s.content.trim() }))
canonicalSections(secs) ==
  [i \in 1..Len(secs) |->
     [title |-> toUpperCase(trim(secs[i].title)), content |-> trim(secs[i].content)]]

\* The payload object of generatePackage.  form has the fields name, badge,
\* role, evidenceSource, locationDetails and sections (a sequence of
\* {title, content}).
payload(form, id, timestamp) ==
  [op   |-> trim(form.name),
   bid  |-> trim(form.badge),
   role |-> trim(form.role),
   src  |-> trim(finalEvidenceSource(form.evidenceSource, form.locationDetails)),
   uid  |-> id,
   ts   |-> timestamp,
   sec  |-> canonicalSections(form.sections)]

payloadString(form, id, timestamp) == JSONStringify(payload(form, id, timestamp))

\* canonicalSections.map((s, i) => `\n#${i + 1} :: ${s.title}\n${s.content}`).join("\n\n")
manifestText(secs) ==
  join([i \in 1..Len(secs) |->
          "\n#" \o ToString(i) \o " :: " \o secs[i].title \o "\n" \o secs[i].content],
       "\n\n")

\* The template literal of formattedReport, trimmed.
formattedReport(form, id, timestamp, hash) ==
  trim("\n\n         ██ P.H.A.N.I.X ██\n     FORENSIC-QR-ARCHITECT\n"
       \o RuleDouble \o "\n"
       \o "CASE ID   : " \o id \o "\n"
       \o "TIMESTAMP : " \o toLocaleString(timestamp) \o "\n"
       \o "REF-TS    : " \o timestamp \o "\n"
       \o "STATUS    : SEALED / VERIFIED\n"
       \o RuleSingle \o "\n"
       \o "OPERATOR NAME : " \o trim(form.name) \o "\n"
       \o "BADGE ID      : " \o trim(form.badge) \o "\n"
       \o "ROLE          : " \o trim(form.role) \o "\n"
       \o "EVIDENCE FROM : "
       \o trim(finalEvidenceSource(form.evidenceSource, form.locationDetails)) \o "\n"
       \o RuleDouble \o "\n"
       \o MarkerManifest \o "\n"
       \o manifestText(canonicalSections(form.sections)) \o "\n"
       \o RuleDouble \o "\n"
       \o MarkerSignature \o "\n"
       \o MarkerHashLabel \o "\n"
       \o hash \o "\n"
       \o RuleSingle \o "\n"
       \o "DIGITALLY SIGNED BY PHANIX\n"
       \o "(C) " \o getFullYear(timestamp) \o " FORENSIC-QR-ARCHITECT\n"
       \o "END OF RECORD")

\* The digest generatePackage embeds.
packageHash(form, id, timestamp) == SHA256(payloadString(form, id, timestamp))

\* The guard of generatePackage: a required field is blank after trimming.
\* A validation that forgets the role.
requiredFieldBlankNoRole(form) ==
  \/ trim(form.name) = ""
  \/ trim(form.badge) = ""
  \/ trim(form.evidenceSource) = ""

requiredFieldBlank(form) ==
  \/ trim(form.name) = ""
  \/ trim(form.badge) = ""
  \/ trim(form.role) = ""
  \/ trim(form.evidenceSource) = ""

(***************************************************************************)
(* processScan: recognition and extraction                                 *)
(***************************************************************************)
\* const isPhanix = content.includes(..) && content.includes(..) && content.includes(..)
isPhanix(content) ==
  /\ includes(content, MarkerFamily)
  /\ includes(content, MarkerSignature)
  /\ includes(content, MarkerHashLabel)

\* lines.findIndex(l => l.includes(key)), 1-based; 0 for -1.
RECURSIVE findIndexFrom(_, _, _)
findIndexFrom(lines, key, i) ==
  IF i > Len(lines) THEN 0
  ELSE IF includes(lines[i], key) THEN i
  ELSE findIndexFrom(lines, key, i + 1)

findIndex(lines, key) == findIndexFrom(lines, key, 1)

\* getValue throws a TypeError: the line found has no colon, so that
\* line.split(':')[1] is undefined and .trim() is called on it.
getValueThrows(lines, key) ==
  LET i == findIndex(lines, key)
  IN  i # 0 /\ Len(split(lines[i], ":")) < 2

\* const getValue = (key) => { const line = lines.find(l => l.includes(key));
\*                            return line ? line.split(':')[1].trim() : ''; }
getValue(lines, key) ==
  LET i == findIndex(lines, key)
  IN  IF i = 0 THEN "" ELSE trim(split(lines[i], ":")[2])

\* const extractedTimestamp = getValue('REF-TS') || getValue('TIMESTAMP')
extractTimestamp(lines) ==
  IF getValue(lines, "REF-TS") # "" THEN getValue(lines, "REF-TS")
  ELSE getValue(lines, "TIMESTAMP")

\* The line after the hash label, trimmed, when that line exists and is
\* not the empty string.
extractHash(lines) ==
  LET hashIndex == findIndex(lines, MarkerHashLabel)
  IN  IF hashIndex # 0 /\ hashIndex + 1 <= Len(lines) /\ lines[hashIndex + 1] # ""
      THEN trim(lines[hashIndex + 1])
      ELSE ""

\* The sectionLines.forEach walk.  w is the walk state: the sections pushed
\* so far, the current title and the current content lines.
RECURSIVE walkSections(_, _, _)
walkSections(sectionLines, i, w) ==
  IF i > Len(sectionLines) THEN w
  ELSE
    LET line == sectionLines[i]
    IN  IF startsWith(trim(line), "#") /\ includes(line, "::")
        THEN walkSections(sectionLines, i + 1,
               [sec |-> IF w.currentTitle # ""
                        THEN Append(w.sec, [title   |-> w.currentTitle,
                                            content |-> trim(join(w.currentContentLines, "\n"))])
                        ELSE w.sec,
                currentTitle |-> trim(split(line, "::")[2]),
                currentContentLines |-> <<>>])
        ELSE walkSections(sectionLines, i + 1,
               IF Len(w.currentContentLines) > 0 \/ trim(line) # ""
               THEN [w EXCEPT !.currentContentLines = Append(@, line)]
               ELSE w)

\* extractedSec
extractSections(lines) ==
  LET manifestStart == findIndex(lines, MarkerManifest)
      sigStart      == findIndex(lines, MarkerSignature)
  IN  IF manifestStart # 0 /\ sigStart # 0
      THEN LET w == walkSections(SubSeq(lines, manifestStart + 1, sigStart - 1), 1,
                                 [sec |-> <<>>, currentTitle |-> "", currentContentLines |-> <<>>])
           IN  IF w.currentTitle # ""
               THEN Append(w.sec, [title   |-> w.currentTitle,
                                   content |-> trim(join(w.currentContentLines, "\n"))])
               ELSE w.sec
      ELSE <<>>

\* A getValue call that processScan reaches throws.  The calls run in source
\* order; getValue('TIMESTAMP') runs only when getValue('REF-TS') is ''.
extractionThrows(lines) ==
  \/ getValueThrows(lines, "CASE ID")
  \/ getValueThrows(lines, "REF-TS")
  \/ (getValue(lines, "REF-TS") = "" /\ getValueThrows(lines, "TIMESTAMP"))
  \/ getValueThrows(lines, "OPERATOR NAME")
  \/ getValueThrows(lines, "BADGE ID")
  \/ getValueThrows(lines, "ROLE")
  \/ getValueThrows(lines, "EVIDENCE FROM")

\* phanixData as processScan builds it, Null when the id or the hash is empty.
extractPhanixData(content) ==
  LET lines         == split(content, "\n")
      extractedId   == getValue(lines, "CASE ID")
      extractedHash == extractHash(lines)
  IN  IF extractedId # "" /\ extractedHash # ""
      THEN [type |-> "phanix",
            hash |-> extractedHash,
            data |-> [uid  |-> extractedId,
                      ts   |-> extractTimestamp(lines),
                      op   |-> getValue(lines, "OPERATOR NAME"),
                      bid  |-> getValue(lines, "BADGE ID"),
                      role |-> getValue(lines, "ROLE"),
                      src  |-> getValue(lines, "EVIDENCE FROM"),
                      sec  |-> extractSections(lines)]]
      ELSE Null

(***************************************************************************)
(* performForensicAnalysis                                                 *)
(***************************************************************************)
\* The identifiers urlPattern and ipUrl, which the first else-if tests, are
\* declared nowhere in the module: evaluating the test throws a
\* ReferenceError.  The test is reached exactly when phanixData is null.
analysisThrows(phanixData) == phanixData = Null

\* The report of setAnalysisReport.  With phanixData it is the report of the
\* first branch.  Without, it would carry the initial values of lines 627-637,
\* but that call is never reached: the else-if test throws first.
\* cameraActive is the isCameraActive of the closure.  The wall-clock
\* timestamp and the description text of the report are left out.
analysisReportOf(rawData, phanixData, cameraActive) ==
  IF phanixData # Null
  THEN [type           |-> "report",
        hash           |-> phanixData.hash,
        classification |-> "PHANIX Secure Package",
        riskLevel      |-> "LOW",
        trustStatus    |-> "TRUSTED SEAL",
        indicators     |-> <<"Internal forensic signature detected",
                             "Data structure verified",
                             "Chain of custody intact">>,
        checklist      |-> <<"PASS", "PASS", "PASS">>,
        source         |-> IF cameraActive THEN "LIVE_CAMERA_SCAN"
                           ELSE "FORENSIC_IMAGE_INTAKE"]
  ELSE [type           |-> "report",
        hash           |-> SHA256(rawData),
        classification |-> "Generic Data / Plaintext",
        riskLevel      |-> "LOW",
        trustStatus    |-> "UNVERIFIED DATA",
        indicators     |-> <<>>,
        checklist      |-> <<"PASS", "SKIP", "NONE">>,
        source         |-> IF cameraActive THEN "LIVE_CAMERA_SCAN"
                           ELSE "FORENSIC_IMAGE_INTAKE"]

(***************************************************************************)
(* processScan                                                             *)
(***************************************************************************)
\* processScan without the early return of line 701.
parseScanNoEarlyReturn(content) ==
  IF isPhanix(content)
  THEN IF extractionThrows(split(content, "\n"))
       THEN [kind |-> "typeError"]
       ELSE LET phanixData == extractPhanixData(content)
            IN  IF phanixData # Null
                THEN [kind |-> "valid", phanixData |-> phanixData]
                ELSE [kind |-> "raw"]
  ELSE [kind |-> "raw"]

\* What processScan makes of a content, as far as the content alone decides
\* it: "blank" (the early return), "typeError" (getValue throws before any
\* state is set), "valid" (phanixData is built) or "raw".
parseScan(content) ==
  IF trim(content) = "" THEN [kind |-> "blank"]
  ELSE IF isPhanix(content)
  THEN IF extractionThrows(split(content, "\n"))
       THEN [kind |-> "typeError"]
       ELSE LET phanixData == extractPhanixData(content)
            IN  IF phanixData # Null
                THEN [kind |-> "valid", phanixData |-> phanixData]
                ELSE [kind |-> "raw"]
  ELSE [kind |-> "raw"]

\* processScan(content) in a state with the given scanResult and
\* analysisReport: the scanResult and analysisReport it leaves and the
\* exception it ends with ("none" when it returns).  State updates queued
\* before an exception are applied.  parsed is parseScan(content).
processScanOutcome(content, parsed, cameraActive, oldResult, oldReport) ==
  IF parsed.kind = "blank"
  THEN [scanResult |-> oldResult, analysisReport |-> oldReport, threw |-> "none"]
  ELSE IF parsed.kind = "typeError"
  THEN [scanResult |-> oldResult, analysisReport |-> oldReport, threw |-> "TypeError"]
  ELSE IF parsed.kind = "valid"
  THEN [scanResult     |-> [type |-> "valid", data |-> parsed.phanixData.data,
                            hash |-> parsed.phanixData.hash],
        analysisReport |-> IF analysisThrows(parsed.phanixData) THEN oldReport
                           ELSE analysisReportOf(content, parsed.phanixData, cameraActive),
        threw          |-> IF analysisThrows(parsed.phanixData) THEN "ReferenceError"
                           ELSE "none"]
  ELSE [scanResult     |-> [type |-> "raw", data |-> content],
        analysisReport |-> IF analysisThrows(Null) THEN oldReport
                           ELSE analysisReportOf(content, Null, cameraActive),
        threw          |-> IF analysisThrows(Null) THEN "ReferenceError" ELSE "none"]

(***************************************************************************)
(* The shareable link: Base64, UTF-8 and JSON as the effect applies them   *)
(***************************************************************************)
Undefined == [type |-> "undefined"]

\* CryptoJS.enc.Base64.parse: the bytes of the text up to its first '=',
\* three for every four characters; a character outside the map counts as 0.
\* Nothing is rejected.
Base64Parse(str) ==
  LET map      == "ABCDEFGHIJKLMNOPQRSTUVWXYZabcdefghijklmnopqrstuvwxyz0123456789+/"
      pad      == indexOf(str, "=")
      n        == IF pad # 0 THEN pad - 1 ELSE Len(str)
      bits(i)  == LET k == indexOf(map, Ch(str, i)) IN IF k = 0 THEN 0 ELSE k - 1
      at(j)    == j + ((j - 1) \div 3)          \* 0-based index of the j-th i with i % 4 # 0
      shift(i) == 2 * (i % 4)
  IN  [j \in 1..(n - ((n + 3) \div 4)) |->
         ((bits(at(j)) * (2 ^ shift(at(j)))) + (bits(at(j) + 1) \div (2 ^ (6 - shift(at(j)))))) % 256]

\* CryptoJS.enc.Utf8.stringify: the text of the bytes; it throws 'Malformed
\* UTF-8 data' (ok is FALSE) on a byte sequence that is not UTF-8.  A
\* character outside the alphabet of this model is rendered as a block.
Utf8Stringify(bytes) ==
  LET n == Len(bytes)
      low  == " !\"#$%&'()*+,-./0123456789:;<=>?@ABCDEFGHIJKLMNOPQRSTUVWXYZ[\\]^_"   \* 32..95
      high == "abcdefghijklmnopqrstuvwxyz{|}~"                                        \* 97..126
      charOf(b) == IF b = 10 THEN "\n" ELSE IF b = 9 THEN "\t" ELSE IF b = 13 THEN "\r"
                   ELSE IF b >= 32 /\ b <= 95 THEN Ch(low, b - 31)
                   ELSE IF b >= 97 /\ b <= 126 THEN Ch(high, b - 96)
                   ELSE "█"
      more(b) == IF b < 128 THEN 0
                 ELSE IF b >= 194 /\ b <= 223 THEN 1
                 ELSE IF b >= 224 /\ b <= 239 THEN 2
                 ELSE IF b >= 240 /\ b <= 244 THEN 3
                 ELSE 4                              \* no lead byte
      continued(i, k) == i + k <= n /\ \A j \in (i + 1)..(i + k) : bytes[j] >= 128 /\ bytes[j] <= 191
      RECURSIVE ascii(_, _), walk(_, _)
      ascii(i, j) ==                                 \* the text of bytes i..j, all below 128
        IF i > j THEN ""
        ELSE IF i = j THEN charOf(bytes[i])
        ELSE ascii(i, (i + j) \div 2) \o ascii(((i + j) \div 2) + 1, j)
      walk(i, acc) ==
        IF i > n THEN [ok |-> TRUE, s |-> acc]
        ELSE IF more(bytes[i]) = 0 THEN walk(i + 1, acc \o charOf(bytes[i]))
        ELSE IF more(bytes[i]) < 4 /\ continued(i, more(bytes[i]))
             THEN walk(i + 1 + more(bytes[i]), acc \o "█")
        ELSE [ok |-> FALSE, s |-> ""]
  IN  IF \A i \in 1..n : bytes[i] < 128
      THEN [ok |-> TRUE, s |-> ascii(1, n)]
      ELSE walk(1, "")

\* JSON.parse: [ok, v], ok FALSE for the SyntaxError.  Values are records:
\* Null, [type "boolean" | "number", s], [type "string", s], [type "array",
\* items], [type "object", keys, vals], keys in the order of the text.  The
\* numbers of this model are the non-negative integers, the escapes of its
\* strings are \" \\ \/ \n \t \r.  Every step takes what was read so far as
\* its arguments: i is a position in the text, o the object read so far.
JSONParse(text) ==
  LET n == Len(text)
      c(i) == IF i >= 1 /\ i <= n THEN Ch(text, i) ELSE ""
      skip(i) == FirstNonWs(text, i)
      word(i, w) == i + Len(w) - 1 <= n /\ SubSeq(text, i, i + Len(w) - 1) = w
      fail == [ok |-> FALSE, v |-> Undefined, i |-> 0]
      done(v, i) == [ok |-> TRUE, v |-> v, i |-> i]
      scalar(type, i, j) == done([type |-> type, s |-> SubSeq(text, i, j - 1)], j)
      emptyObject == [type |-> "object", keys |-> <<>>, vals |-> <<>>]
      RECURSIVE digitsEnd(_)
      digitsEnd(i) == IF c(i) # "" /\ includes(Digits, c(i)) THEN digitsEnd(i + 1) ELSE i
      unescaped(e) == IF e = "n" THEN "\n" ELSE IF e = "t" THEN "\t" ELSE IF e = "r" THEN "\r" ELSE e
      RECURSIVE escaped(_, _), escape(_, _, _)
      escaped(i, acc) ==                             \* a string with escapes, from i on
        IF i > n \/ c(i) \in {"\n", "\t", "\r"} THEN fail
        ELSE IF c(i) = "\"" THEN done([type |-> "string", s |-> acc], i + 1)
        ELSE IF c(i) = "\\" THEN escape(i, acc, c(i + 1))
        ELSE escaped(i + 1, acc \o c(i))
      escape(i, acc, e) ==
        IF e \in {"\"", "\\", "/", "n", "t", "r"} THEN escaped(i + 2, acc \o unescaped(e))
        ELSE fail
      plain(i, str) ==                               \* a string without escapes
        IF \E w \in {"\n", "\t", "\r"} : includes(str, w) THEN fail
        ELSE done([type |-> "string", s |-> str], i + Len(str) + 1)
      closing(i, rest, quote, slash) ==
        IF quote = 0 THEN fail
        ELSE IF slash # 0 /\ slash < quote THEN escaped(i, "")
        ELSE plain(i, SubSeq(rest, 1, quote - 1))
      within(i, rest) == closing(i, rest, indexOf(rest, "\""), indexOf(rest, "\\"))
      str(i) == within(i, SubSeq(text, i, n))        \* the string whose first character is at i
      put(o, k, v) ==
        IF \E q \in 1..Len(o.keys) : o.keys[q] = k
        THEN [o EXCEPT !.vals[CHOOSE q \in 1..Len(o.keys) : o.keys[q] = k] = v]
        ELSE [o EXCEPT !.keys = Append(@, k), !.vals = Append(@, v)]
      RECURSIVE value(_), members(_, _), elements(_, _)
      valueAt(i, ch) ==
        IF ch = "{" THEN members(skip(i + 1), emptyObject)
        ELSE IF ch = "[" THEN elements(skip(i + 1), <<>>)
        ELSE IF ch = "\"" THEN str(i + 1)
        ELSE IF ch = "0" THEN scalar("number", i, i + 1)
        ELSE IF ch # "" /\ includes(Digits, ch) THEN scalar("number", i, digitsEnd(i))
        ELSE IF word(i, "null") THEN done(Null, i + 4)
        ELSE IF word(i, "true") THEN scalar("boolean", i, i + 4)
        ELSE IF word(i, "false") THEN scalar("boolean", i, i + 5)
        ELSE fail
      at(i) == valueAt(i, c(i))
      value(i) == at(skip(i))
      \* an object: the key, the colon, the value, then ',' or '}'
      next(o, e, ch) ==
        IF ch = "," THEN members(skip(e + 1), o)
        ELSE IF ch = "}" THEN done(o, e + 1)
        ELSE fail
      after(o, e) == next(o, e, c(e))
      member(o, key, v) == IF ~v.ok THEN fail ELSE after(put(o, key, v.v), skip(v.i))
      colon(o, key, j) == IF c(j) # ":" THEN fail ELSE member(o, key, value(j + 1))
      keyed(o, k) == IF ~k.ok THEN fail ELSE colon(o, k.v.s, skip(k.i))
      members(i, o) ==
        IF c(i) = "}" /\ o.keys = <<>> THEN done(o, i + 1)
        ELSE IF c(i) # "\"" THEN fail
        ELSE keyed(o, str(i + 1))
      \* an array: the value, then ',' or ']'
      nextItem(items, e, ch) ==
        IF ch = "," THEN elements(e + 1, items)
        ELSE IF ch = "]" THEN done([type |-> "array", items |-> items], e + 1)
        ELSE fail
      item(items, v) ==
        IF ~v.ok THEN fail ELSE nextItem(Append(items, v.v), skip(v.i), c(skip(v.i)))
      elements(i, items) ==
        IF c(skip(i)) = "]" /\ items = <<>> THEN done([type |-> "array", items |-> <<>>], skip(i) + 1)
        ELSE item(items, value(i))
      whole(top) ==
        IF top.ok /\ skip(top.i) > n THEN [ok |-> TRUE, v |-> top.v]
        ELSE [ok |-> FALSE, v |-> Undefined]
  IN  whole(value(1))

\* JSON.stringify of a parsed value; "" stands for the undefined it returns
\* for undefined.
RECURSIVE JSONStringifyValue(_)
JSONStringifyValue(v) ==
  IF v = Undefined THEN ""
  ELSE IF v = Null THEN "null"
  ELSE IF v.type = "string" THEN JSONString(v.s)
  ELSE IF v.type = "array"
  THEN "[" \o join([k \in 1..Len(v.items) |-> JSONStringifyValue(v.items[k])], ",") \o "]"
  ELSE IF v.type = "object"
  THEN "{" \o join([k \in 1..Len(v.keys) |->
                      JSONString(v.keys[k]) \o ":" \o JSONStringifyValue(v.vals[k])], ",") \o "}"
  ELSE v.s

\* pkg.key for a value other than null.
Property(pkg, key) ==
  IF pkg.type = "object" /\ \E q \in 1..Len(pkg.keys) : pkg.keys[q] = key
  THEN pkg.vals[CHOOSE q \in 1..Len(pkg.keys) : pkg.keys[q] = key]
  ELSE Undefined

\* The effect that compares the embedded hash with the digest of the whole
\* package instead of that of its data.
linkEffectHashesPackage(r) ==
  LET caught == [verifyStatus |-> "error", pkg |-> Null]
      verify(pkg, hash, calculatedHash) ==
        [verifyStatus |-> IF hash = [type |-> "string", s |-> calculatedHash]
                          THEN "valid" ELSE "invalid",
         pkg |-> pkg]
      parsed(pkg) ==
        IF ~pkg.ok \/ pkg.v = Null THEN caught
        ELSE verify(pkg.v, Property(pkg.v, "hash"), SHA256(JSONStringifyValue(pkg.v)))
      decoded(jsonStr) == IF ~jsonStr.ok THEN caught ELSE parsed(JSONParse(jsonStr.s))
  IN  decoded(Utf8Stringify(Base64Parse(r)))

\* The try block of the link effect for the parameter r: the verifyStatus it
\* sets and the pkg it passes to setViewerData, Null when the catch block ran
\* (a malformed UTF-8 text, a SyntaxError, or the TypeError of null.data).
linkEffect(r) ==
  LET caught == [verifyStatus |-> "error", pkg |-> Null]
      verify(pkg, hash, calculatedHash) ==
        [verifyStatus |-> IF hash = [type |-> "string", s |-> calculatedHash]
                          THEN "valid" ELSE "invalid",
         pkg |-> pkg]
      parsed(pkg) ==
        IF ~pkg.ok \/ pkg.v = Null THEN caught
        ELSE verify(pkg.v, Property(pkg.v, "hash"),
                    SHA256(JSONStringifyValue(Property(pkg.v, "data"))))
      decoded(jsonStr) == IF ~jsonStr.ok THEN caught ELSE parsed(JSONParse(jsonStr.s))
  IN  decoded(Utf8Stringify(Base64Parse(r)))

(***************************************************************************)
(* Bounds and the inputs of the model                                      *)
(***************************************************************************)
\* Most sections the form holds.
MaxSections == 2
\* Most form edits (typing, adding or removing a section) in one behaviour
\* of the whole component, and in one behaviour of the generator alone.
MaxEdits == 4
MaxEditsGenerator == 6
\* Most image uploads in flight at once, and where uploads overlap.
MaxUploads == 1
MaxOverlap == 2
\* Most runs of the camera effect whose capture is not over.
MaxSessions == 2

\* What the user types into the fields of the form.
NameValues     == {"Dr: Who", " J. Doe "}
BadgeValues    == {" PHX-1 "}
RoleValues     == {"Investigator"}
SourceValues   == {"Lab "}
LocationValues == {"Crime Scene A"}
DetailValues   == {"Room 2"}
TitleValues    == {"notes"}
ContentValues  == {" bloodstain sample "}

\* uuidv4() and new Date().toISOString() at the end of a generation.
Ids        == {"3f2a-41c9"}
Timestamps == {"2026-01-02T15:04:05.000Z"}

\* The section objects of the heap: those of the form and those a running
\* generation still refers to.
ObjIds == 1..(2 * MaxSections)

EmptySection == [title |-> "", content |-> ""]

(***************************************************************************)
(* The texts a QR code can decode to                                       *)
(***************************************************************************)
\* Packages that pass the validation of generatePackage, as typed.
FormScenario1 ==
  [name |-> "J. Doe", badge |-> "PHX-1", role |-> "Investigator",
   evidenceSource |-> "Crime Scene A", locationDetails |-> "",
   sections |-> <<[title |-> "evidence 1", content |-> " bloodstain sample "]>>]

FormColon ==
  [name |-> "Dr: Who", badge |-> "PHX-2", role |-> "Examiner",
   evidenceSource |-> "Other", locationDetails |-> "",
   sections |-> <<[title |-> "", content |-> "untitled"],
                  [title |-> "log", content |-> "#1 :: boot"]>>]

SamplePackages ==
  {[form |-> f, id |-> id, timestamp |-> ts] :
     f \in {FormScenario1, FormColon}, id \in Ids, ts \in Timestamps}

\* The report generatePackage seals for a package.
reportOf(p) ==
  formattedReport(p.form, p.id, p.timestamp, packageHash(p.form, p.id, p.timestamp))

SealedReport == [p \in SamplePackages |-> reportOf(p)]

\* text with the first occurrence of old replaced by new
Replace(text, old, new) ==
  LET i == indexOf(text, old)
  IN  SubSeq(text, 1, i - 1) \o new \o SubSeq(text, i + Len(old), Len(text))

Scenario1 ==
  [form |-> FormScenario1, id |-> "3f2a-41c9", timestamp |-> "2026-01-02T15:04:05.000Z"]

\* The Scenario 1 report with one character changed in a scalar-field line
\* or in the manifest section; the digest line is as sealed.
TamperedName    == Replace(SealedReport[Scenario1], "J. Doe", "J. Roe")
TamperedContent == Replace(SealedReport[Scenario1], "bloodstain sample", "bloodstain simple")

TamperedReports ==
  {TamperedName, TamperedContent}

\* Texts that are no report of generatePackage.
TextPlain      == "hello world"
TextBlank      == "  "
\* the three markers processScan tests, an id and a digest, no manifest marker
TextNoManifest ==
  "FORENSIC-QR-ARCHITECT\nCASE ID : 77e0-b8d2\n[ CRYPTOGRAPHIC SIGNATURE ]\nSHA-256 HASH:\n0a1b2c"
\* all four markers and a digest, no CASE ID line
TextNoCaseId ==
  "FORENSIC-QR-ARCHITECT\n[ EVIDENCE MANIFEST ]\n[ CRYPTOGRAPHIC SIGNATURE ]\nSHA-256 HASH:\n0a1b2c"
\* all four markers and an id, nothing after the hash label
TextNoDigest ==
  "FORENSIC-QR-ARCHITECT\nCASE ID : 77e0-b8d2\n[ EVIDENCE MANIFEST ]\n[ CRYPTOGRAPHIC SIGNATURE ]\nSHA-256 HASH:"
\* all four markers, a CASE ID line without a colon
TextNoColon ==
  "FORENSIC-QR-ARCHITECT\nCASE ID 77e0-b8d2\n[ EVIDENCE MANIFEST ]\n[ CRYPTOGRAPHIC SIGNATURE ]\nSHA-256 HASH:\n0a1b2c"
ForeignTexts ==
  {TextPlain, TextBlank, TextNoManifest, TextNoCaseId, TextNoDigest, TextNoColon}

\* A form whose section content, typed into the textarea, holds the hash
\* label on a line of its own followed by an empty line.
FormLabel ==
  [name |-> "J. Doe", badge |-> "PHX-1", role |-> "Investigator",
   evidenceSource |-> "Lab", locationDetails |-> "",
   sections |-> <<[title |-> "hashes", content |-> "SHA-256 HASH:\n\n0a1b2c"]>>]

LabelPackage ==
  [form |-> FormLabel, id |-> "3f2a-41c9", timestamp |-> "2026-01-02T15:04:05.000Z"]

\* The report generatePackage seals for it.
LabelReport == reportOf(LabelPackage)

\* The QR codes of a behaviour of the scanner alone.
ScannerCodes == {SealedReport[p] : p \in SamplePackages} \cup TamperedReports \cup ForeignTexts

\* Texts for the content heuristics of performForensicAnalysis.
TextIpUrl  == "http://192.168.1.5/login"
TextScheme == "javascript:alert(1)"
TextBlob   == "QUJDREVGR0hJSktMTU5PUFFSU1RVVldYWVphYmNkZWZnaGlqa2xtbm9wcXJzdHV2d3h5eg=="

\* The QR codes of a behaviour in which arbitrary texts are analysed.
AnalysisCodes ==
  {SealedReport[Scenario1], TextIpUrl, "https://example.org/case/7", "{\"case\": 7}",
   TextScheme, TextBlob, TextPlain, TextBlank}

\* Values of the parameter r of a link; the comments give the text each is
\* the Base64 of.  The hash of a payload is the digest of JSON.stringify of
\* its data unless the comment says otherwise.
\* {"data":{"uid":"3f2a-41c9","op .. 254f45030d03534543031b3c3e5d"}
LinkValid ==
  "eyJkYXRhIjp7InVpZCI6IjNmMmEtNDFjOSIsIm9wIjoiSi4gRG9lIiwic2VjIjpbXX0sImhhc2giOiI1YjAzNTU0OTQ0MDMxYjAzMTQ0NjEzNDEwZTE1MTI0MzFhMDMwZDAzNGY1MDAzMWIwMzJiMGYwMTI1NGY0NTAzMGQwMzUzNDU0MzAzMWIzYzNlNWQifQ=="
\* {"data":{"uid":"3f2a-41c9"
LinkTruncated ==
  "eyJkYXRhIjp7InVpZCI6IjNmMmEtNDFjOSI="

LinkParams ==
  {LinkValid, LinkTruncated,
   \* a package with a section
   "eyJkYXRhIjp7InVpZCI6Ijc3ZTAtYjhkMiIsIm9wIjoiRHI6IFdobyIsInNlYyI6W3sidGl0bGUiOiJMT0ciLCJjb250ZW50IjoiYm9vdCJ9XX0sImhhc2giOiI1YjAzNTU0OTQ0MDMxYjAzMTgxODQ1MTEwZTQyMTk0NDEzMDMwZDAzNGY1MDAzMWIwMzI1NTIxYjAxMzg0ODRmMDMwZDAzNTM0NTQzMDMxYjNjNWIwMzU0NDk1NDRjNDUwMzFiMDMyZDMwMjgwMzBkMDM0MzRmNGU1NDQ1NGU1NDAzMWIwMzQyNGY0ZjU0MDM1ZDNlNWQifQ==",
   \* the first package, with white space between the tokens
   "eyAiZGF0YSI6IHsidWlkIjogIjNmMmEtNDFjOSIsICJvcCI6ICJKLiBEb2UiLCAic2VjIjogW119LAogICJoYXNoIjogIjViMDM1NTQ5NDQwMzFiMDMxNDQ2MTM0MTBlMTUxMjQzMWEwMzBkMDM0ZjUwMDMxYjAzMmIwZjAxMjU0ZjQ1MDMwZDAzNTM0NTQzMDMxYjNjM2U1ZCIgfQ==",
   \* the first package with the operator changed
   "eyJkYXRhIjp7InVpZCI6IjNmMmEtNDFjOSIsIm9wIjoiSi4gUm9lIiwic2VjIjpbXX0sImhhc2giOiI1YjAzNTU0OTQ0MDMxYjAzMTQ0NjEzNDEwZTE1MTI0MzFhMDMwZDAzNGY1MDAzMWIwMzJiMGYwMTI1NGY0NTAzMGQwMzUzNDU0MzAzMWIzYzNlNWQifQ==",
   \* the first package with the first digit of the hash changed
   "eyJkYXRhIjp7InVpZCI6IjNmMmEtNDFjOSIsIm9wIjoiSi4gRG9lIiwic2VjIjpbXX0sImhhc2giOiIwYjAzNTU0OTQ0MDMxYjAzMTQ0NjEzNDEwZTE1MTI0MzFhMDMwZDAzNGY1MDAzMWIwMzJiMGYwMTI1NGY0NTAzMGQwMzUzNDU0MzAzMWIzYzNlNWQifQ==",
   \* no hash
   "eyJkYXRhIjp7InVpZCI6IjNmMmEtNDFjOSIsIm9wIjoiSi4gRG9lIiwic2VjIjpbXX19",
   \* no data
   "eyJoYXNoIjoiNWIwMzU1NDk0NDAzMWIwMzE0NDYxMzQxMGUxNTEyNDMxYTAzMGQwMzRmNTAwMzFiMDMyYjBmMDEyNTRmNDUwMzBkMDM1MzQ1NDMwMzFiM2MzZTVkIn0=",
   \* {"data":{},"hash":7}
   "eyJkYXRhIjp7fSwiaGFzaCI6N30=",
   \* {}
   "e30=",
   \* 7
   "Nw==",
   \* "report"
   "InJlcG9ydCI=",
   \* []
   "W10=",
   \* null
   "bnVsbA==",
   \* hello world
   "aGVsbG8gd29ybGQ=",
   \* {"data":{},"hash":"0"} x
   "eyJkYXRhIjp7fSwiaGFzaCI6IjAifSB4",
   \* the bytes ff ff ff ff, no UTF-8
   "/////w==",
   \* no character of the Base64 alphabet
   "%%%%",
   \* no data, and the hash is the SHA-256 of the empty message
   "eyJoYXNoIjoiZTNiMGM0NDI5OGZjMWMxNDlhZmJmNGM4OTk2ZmI5MjQyN2FlNDFlNDY0OWI5MzRjYTQ5NTk5MWI3ODUyYjg1NSJ9"}

\* parseScan of the codes of the scanner, computed once.
ParsedCode == {<<t, parseScan(t)>> : t \in ScannerCodes \cup {LabelReport}}

parsedOf(content) ==
  IF content \in ScannerCodes \cup {LabelReport}
  THEN (CHOOSE e \in ParsedCode : e[1] = content)[2]
  ELSE parseScan(content)

VARIABLES
  name, badge, role, evidenceSource, locationDetails,   \* form, scalar fields
  sections,          \* the sections array: a sequence of section objects (ids)
  objs,              \* the section objects: id -> {title, content}
  loading, progress, status, qrData, manifest,
  validationError,
  gen,               \* the generatePackage call in progress (its closure), or Null
  scanInput, scanResult, analysisReport,
  isCameraActive, isAnalyzing,
  sessions,          \* the runs of the camera effect whose capture is not yet over
  mounted,           \* the component is mounted
  tab, viewerData, verifyStatus,
  reportParam,       \* the parameter r of the address the page was loaded with, "" if none
  uploads,           \* the handleFileUpload runs in flight, oldest first
  threw,             \* the exception the last handler ended with, "none" if it returned
  editsLeft,         \* form edits the behaviour may still make
  codes              \* the QR codes there are to scan, besides the one on display

formVars == <<name, badge, role, evidenceSource, locationDetails, sections, objs, editsLeft>>
genVars  == <<loading, progress, status, qrData, manifest, gen>>
scanVars == <<scanInput, scanResult, analysisReport>>
camVars  == <<isCameraActive, sessions, mounted>>
upVars   == <<isAnalyzing, uploads>>
viewVars == <<tab, viewerData, verifyStatus, reportParam>>

vars == <<name, badge, role, evidenceSource, locationDetails, sections, objs,
          loading, progress, status, qrData, manifest, validationError, gen,
          scanInput, scanResult, analysisReport, isCameraActive, isAnalyzing,
          sessions, mounted, uploads, threw, editsLeft, codes, viewVars>>

\* The form as generatePackage reads it: secIds is the sections array of the
\* closure, the section objects are read from the heap.
FormOf(n, b, r, e, l, secIds) ==
  [name |-> n, badge |-> b, role |-> r, evidenceSource |-> e, locationDetails |-> l,
   sections |-> [i \in 1..Len(secIds) |-> objs[secIds[i]]]]

Form == FormOf(name, badge, role, evidenceSource, locationDetails, sections)

\* The section objects in use.
Range(seq) == {seq[i] : i \in 1..Len(seq)}
LiveObjs(secIds, g) == Range(secIds) \cup (IF g = Null THEN {} ELSE Range(g.sections))

\* A section object not in use, for a new section.
FreshObj(secIds, g) ==
  CHOOSE o \in ObjIds \ LiveObjs(secIds, g) :
    \A q \in ObjIds \ LiveObjs(secIds, g) : o <= q

\* Objects nothing refers to any more are dropped (reset), as the garbage
\* collector may.
Collect(heap, secIds, g) ==
  [o \in ObjIds |-> IF o \in LiveObjs(secIds, g) THEN heap[o] ELSE EmptySection]

(***************************************************************************)
(* Init: the component after construction (the useState initial values)    *)
(***************************************************************************)
Constructed ==
  /\ name = "" /\ badge = "" /\ role = "" /\ evidenceSource = "" /\ locationDetails = ""
  /\ sections = <<1>>
  /\ objs = [o \in ObjIds |-> IF o = 1 THEN [title |-> "Evidence 1", content |-> ""]
                                        ELSE EmptySection]
  /\ loading = FALSE /\ progress = 0 /\ status = 0
  /\ qrData = "" /\ manifest = Null
  /\ validationError = ""
  /\ gen = Null
  /\ scanInput = "" /\ scanResult = Null /\ analysisReport = Null
  /\ isCameraActive = FALSE /\ isAnalyzing = FALSE
  /\ sessions = <<>> /\ mounted = TRUE
  /\ tab = "generator" /\ viewerData = Null /\ verifyStatus = "idle"
  /\ uploads = <<>>
  /\ threw = "none"

\* The page is loaded with or without a link.
Init ==
  Constructed /\ editsLeft = MaxEdits /\ codes = {} /\ reportParam \in {"", LinkValid}

(***************************************************************************)
(* The generator form                                                      *)
(***************************************************************************)
\* No reaction of a promise chain is queued.  The reactions of an upload
\* (.then, .catch, .finally) are microtasks: once tryDecode has settled they
\* run before the handler of any other event or timer.
NoReactionPending ==
  \A u \in 1..Len(uploads) : uploads[u].pc \in {"loading", "decoding"}

\* The component can take an event: it is mounted and no reaction is queued.
Interactive == mounted /\ NoReactionPending

\* What every form edit does besides its own assignment.
Edit ==
  /\ Interactive
  /\ editsLeft > 0
  /\ editsLeft' = editsLeft - 1
  /\ threw' = "none"
  /\ UNCHANGED <<genVars, validationError, scanVars, camVars, upVars, codes, viewVars>>

\* onChange of the OPERATOR NAME input
setName ==
  \E v \in NameValues \cup {""} :
    /\ v # name
    /\ name' = v
    /\ Edit
    /\ UNCHANGED <<badge, role, evidenceSource, locationDetails, sections, objs>>

\* onChange of the BADGE ID input
setBadge ==
  \E v \in BadgeValues \cup {""} :
    /\ v # badge
    /\ badge' = v
    /\ Edit
    /\ UNCHANGED <<name, role, evidenceSource, locationDetails, sections, objs>>

\* onChange of the ROLE input
setRole ==
  \E v \in RoleValues \cup {""} :
    /\ v # role
    /\ role' = v
    /\ Edit
    /\ UNCHANGED <<name, badge, evidenceSource, locationDetails, sections, objs>>

\* onChange of the EVIDENCE TAKEN FROM input
setEvidenceSource ==
  \E v \in SourceValues \cup {""} :
    /\ v # evidenceSource
    /\ evidenceSource' = v
    /\ Edit
    /\ UNCHANGED <<name, badge, role, locationDetails, sections, objs>>

\* onMouseDown of a preset of the location list: sets the source and clears
\* the details.  The list shows the presets that contain what is typed in the
\* input, letter case aside.
selectLocation ==
  \E loc \in LocationValues :
    /\ evidenceSource = "" \/ includes(toUpperCase(loc), toUpperCase(evidenceSource))
    /\ evidenceSource' = loc
    /\ locationDetails' = ""
    /\ <<evidenceSource', locationDetails'>> # <<evidenceSource, locationDetails>>
    /\ Edit
    /\ UNCHANGED <<name, badge, role, sections, objs>>

\* onChange of the details textarea, rendered while evidenceSource is not empty
setLocationDetails ==
  \E v \in DetailValues \cup {""} :
    /\ evidenceSource # ""
    /\ v # locationDetails
    /\ locationDetails' = v
    /\ Edit
    /\ UNCHANGED <<name, badge, role, evidenceSource, sections, objs>>

\* onChange of a section title: n[i].title = value writes the section object
\* itself, which the copied array shares with the old one.
setSectionTitle ==
  \E i \in 1..Len(sections) : \E v \in TitleValues \cup {""} :
    /\ v # objs[sections[i]].title
    /\ objs' = [objs EXCEPT ![sections[i]].title = v]
    /\ Edit
    /\ UNCHANGED <<name, badge, role, evidenceSource, locationDetails, sections>>

\* onChange of a section content textarea: n[i].content = value
setSectionContent ==
  \E i \in 1..Len(sections) : \E v \in ContentValues \cup {""} :
    /\ v # objs[sections[i]].content
    /\ objs' = [objs EXCEPT ![sections[i]].content = v]
    /\ Edit
    /\ UNCHANGED <<name, badge, role, evidenceSource, locationDetails, sections>>

\* setSections([...sections, { title: "", content: "" }])
addSection ==
  /\ Len(sections) < MaxSections
  /\ LET o == FreshObj(sections, gen)
     IN  /\ sections' = Append(sections, o)
         /\ objs' = [objs EXCEPT ![o] = EmptySection]
  /\ Edit
  /\ UNCHANGED <<name, badge, role, evidenceSource, locationDetails>>

\* setSections(sections.filter((_, idx) => idx !== i)); the button is rendered
\* while there is more than one section.
removeSection ==
  \E i \in 1..Len(sections) :
    /\ Len(sections) > 1
    /\ sections' = SubSeq(sections, 1, i - 1) \o SubSeq(sections, i + 1, Len(sections))
    /\ objs' = Collect(objs, sections', gen)
    /\ Edit
    /\ UNCHANGED <<name, badge, role, evidenceSource, locationDetails>>

(***************************************************************************)
(* generatePackage and clearForm                                           *)
(***************************************************************************)
\* The steps array has four entries; progress is (i + 1) * 25.
StepCount == 4
ProgressPerStep == 25

\* The click on GENERATE (disabled while loading): the synchronous part of
\* generatePackage up to the first await.
generatePackage ==
  /\ Interactive
  /\ ~loading
  /\ threw' = "none"
  /\ IF requiredFieldBlank(Form)
     THEN /\ validationError' = MsgRequiredFields
          /\ UNCHANGED <<genVars>>
     ELSE /\ validationError' = ""
          /\ loading' = TRUE
          /\ status' = 1
          /\ progress' = ProgressPerStep
          /\ gen' = [type |-> "gen", step |-> 1,
                     name |-> name, badge |-> badge, role |-> role,
                     evidenceSource |-> evidenceSource,
                     locationDetails |-> locationDetails,
                     sections |-> sections]
          /\ UNCHANGED <<qrData, manifest>>
  /\ UNCHANGED <<formVars, scanVars, camVars, upVars, codes, viewVars>>

\* A setTimeout of the staging loop expires and the loop goes on with the
\* next step.
generateStep ==
  /\ Interactive
  /\ gen # Null /\ gen.step < StepCount
  /\ gen' = [gen EXCEPT !.step = @ + 1]
  /\ status' = gen.step + 1
  /\ progress' = (gen.step + 1) * ProgressPerStep
  /\ threw' = "none"
  /\ UNCHANGED <<formVars, loading, qrData, manifest, validationError,
                 scanVars, camVars, upVars, codes, viewVars>>

\* A last step that keeps the manifest of an earlier package.
generateSealKeepsManifest ==
  /\ Interactive
  /\ gen # Null /\ gen.step = StepCount
  /\ \E id \in Ids, timestamp \in Timestamps :
       LET f    == FormOf(gen.name, gen.badge, gen.role, gen.evidenceSource,
                          gen.locationDetails, gen.sections)
           hash == packageHash(f, id, timestamp)
       IN  /\ qrData' = formattedReport(f, id, timestamp, hash)
           /\ manifest' = IF manifest # Null THEN manifest
                          ELSE [type |-> "manifest", id |-> id, timestamp |-> timestamp,
                                hash |-> hash]
  /\ loading' = FALSE
  /\ gen' = Null
  /\ objs' = Collect(objs, sections, Null)
  /\ threw' = "none"
  /\ UNCHANGED <<name, badge, role, evidenceSource, locationDetails, sections, editsLeft,
                 progress, status, validationError, scanVars, camVars, upVars, codes, viewVars>>

\* The last setTimeout expires: the package is built from the closure's
\* values and stored.
generateSeal ==
  /\ Interactive
  /\ gen # Null /\ gen.step = StepCount
  /\ \E id \in Ids, timestamp \in Timestamps :
       LET f    == FormOf(gen.name, gen.badge, gen.role, gen.evidenceSource,
                          gen.locationDetails, gen.sections)
           hash == packageHash(f, id, timestamp)
       IN  /\ qrData' = formattedReport(f, id, timestamp, hash)
           /\ manifest' = [type |-> "manifest", id |-> id, timestamp |-> timestamp,
                           hash |-> hash]
  /\ loading' = FALSE
  /\ gen' = Null
  /\ objs' = Collect(objs, sections, Null)
  /\ threw' = "none"
  /\ UNCHANGED <<name, badge, role, evidenceSource, locationDetails, sections, editsLeft,
                 progress, status, validationError, scanVars, camVars, upVars, codes, viewVars>>

\* A CLEAR FORM button that is not disabled while loading.
clearFormWhileLoading ==
  /\ Interactive
  /\ name' = "" /\ badge' = "" /\ role' = "" /\ evidenceSource' = ""
  /\ locationDetails' = ""
  /\ sections' = <<1>>
  /\ objs' = [o \in ObjIds |-> IF o = 1 THEN [title |-> "Evidence 1", content |-> ""]
                                         ELSE EmptySection]
  /\ qrData' = "" /\ manifest' = Null
  /\ validationError' = ""
  /\ threw' = "none"
  /\ UNCHANGED <<editsLeft, loading, progress, status, gen, scanVars, camVars, upVars, codes, viewVars>>

\* The click on CLEAR FORM (disabled while loading)
clearForm ==
  /\ Interactive
  /\ ~loading
  /\ name' = "" /\ badge' = "" /\ role' = "" /\ evidenceSource' = ""
  /\ locationDetails' = ""
  /\ sections' = <<1>>
  /\ objs' = [o \in ObjIds |-> IF o = 1 THEN [title |-> "Evidence 1", content |-> ""]
                                         ELSE EmptySection]
  /\ qrData' = "" /\ manifest' = Null
  /\ validationError' = ""
  /\ threw' = "none"
  /\ UNCHANGED <<editsLeft, loading, progress, status, gen, scanVars, camVars, upVars, codes, viewVars>>

(***************************************************************************)
(* The scanner: camera, manual analysis, image upload                      *)
(***************************************************************************)
\* What a camera frame or an image may decode to: one of the codes, or the
\* report on display in the generator.
ScanTexts == codes \cup (IF qrData # "" THEN {qrData} ELSE {})

\* The state updates of one processScan(content) call.
ProcessScan(content, cameraActive) ==
  LET out == processScanOutcome(content, parsedOf(content), cameraActive,
                                scanResult, analysisReport)
  IN  /\ scanResult' = out.scanResult
      /\ analysisReport' = out.analysisReport
      /\ threw' = out.threw

\* The camera effect (lines 131-165) keeps one capture per run.  A run calls
\* decodeFromConstraints, whose promise is pending until the browser has
\* opened the stream ("open") or refused it ("denied"); the cleanup of the run
\* asks for controls.stop() once the promise has resolved.  The browser hands
\* over the capture before the promise resolves with the controls of it: in
\* between the stream is "acquired", held and without controls to stop it.
\* The facing mode is read by nothing but the constraints of the call and is
\* not kept.
NewSession == [stream |-> "pending", cleaned |-> FALSE]

\* A cleanup that does not stop the capture.
cleanupNoStop(s) == [s EXCEPT !.cleaned = TRUE]

\* return () => { controlsPromise.then(controls => { if (controls) controls.stop() }) }
\* The reaction runs at once when the promise has resolved already.
cleanup(s) ==
  [s EXCEPT !.cleaned = TRUE, !.stream = IF @ = "open" THEN "stopped" ELSE @]

\* The promise of decodeFromConstraints resolves with the controls: the
\* reaction a cleanup has registered stops the capture.
controlsResolved(s) ==
  [s EXCEPT !.stream = IF s.cleaned THEN "stopped" ELSE "open"]

\* The capture of a run is over: its cleanup has run and the stream was
\* stopped or never opened.
Over(s) == s.cleaned /\ s.stream \in {"stopped", "denied"}

Unfinished(sess) ==
  LET NotOver(s) == ~Over(s) IN SelectSeq(sess, NotOver)

\* React after a render in which isCameraActive or cameraFacingMode changed
\* (rerun): the cleanup of the last run, then the effect again, which
\* returns at once unless the camera is active.
cameraEffect(sess, rerun, active) ==
  LET cleaned == [i \in 1..Len(sess) |->
                    IF rerun /\ ~sess[i].cleaned THEN cleanup(sess[i]) ELSE sess[i]]
  IN  IF rerun /\ active THEN Append(Unfinished(cleaned), NewSession)
                         ELSE Unfinished(cleaned)

\* The capture the decodeFromConstraints callback reads frames of.
Streaming == \E i \in 1..Len(sessions) :
               ~sessions[i].cleaned /\ sessions[i].stream = "open"

\* onClick of the camera button: setIsCameraActive(true)
startCamera ==
  /\ Interactive
  /\ ~isCameraActive
  /\ Len(sessions) < MaxSessions
  /\ isCameraActive' = TRUE
  /\ sessions' = cameraEffect(sessions, TRUE, TRUE)
  /\ threw' = "none"
  /\ UNCHANGED <<formVars, genVars, validationError, scanVars, mounted, upVars, codes, viewVars>>

\* onClick of STOP CAMERA: setIsCameraActive(false)
stopCamera ==
  /\ Interactive
  /\ isCameraActive
  /\ isCameraActive' = FALSE
  /\ sessions' = cameraEffect(sessions, TRUE, FALSE)
  /\ threw' = "none"
  /\ UNCHANGED <<formVars, genVars, validationError, scanVars, mounted, upVars, codes, viewVars>>

\* onClick of the camera flip button: setCameraFacingMode(prev => ...)
switchCamera ==
  /\ Interactive
  /\ isCameraActive
  /\ Len(cameraEffect(sessions, TRUE, FALSE)) < MaxSessions
  /\ sessions' = cameraEffect(sessions, TRUE, TRUE)
  /\ threw' = "none"
  /\ UNCHANGED <<formVars, genVars, validationError, scanVars, isCameraActive,
                 mounted, upVars, codes, viewVars>>

\* The browser grants the capture a run has asked for.
cameraAcquired ==
  /\ NoReactionPending
  /\ \E i \in 1..Len(sessions) :
       /\ sessions[i].stream = "pending"
       /\ sessions' = [sessions EXCEPT ![i].stream = "acquired"]
  /\ threw' = "none"
  /\ UNCHANGED <<formVars, genVars, validationError, scanVars, isCameraActive,
                 mounted, upVars, codes, viewVars>>

\* The stream of a run is attached and playing: its promise resolves.
cameraOpened ==
  /\ NoReactionPending
  /\ \E i \in 1..Len(sessions) :
       /\ sessions[i].stream = "acquired"
       /\ sessions' = Unfinished([sessions EXCEPT ![i] = controlsResolved(@)])
  /\ threw' = "none"
  /\ UNCHANGED <<formVars, genVars, validationError, scanVars, isCameraActive,
                 mounted, upVars, codes, viewVars>>

\* The decodeFromConstraints callback with a result: setScanInput(text),
\* processScan(text), setIsCameraActive(false), playBeep().  An exception of
\* processScan leaves the callback before setIsCameraActive(false).
cameraDecode ==
  /\ Interactive
  /\ isCameraActive /\ Streaming
  /\ \E text \in ScanTexts :
       /\ scanInput' = text
       /\ ProcessScan(text, TRUE)
  /\ isCameraActive' = (threw' # "none")
  /\ sessions' = cameraEffect(sessions, ~isCameraActive', FALSE)
  /\ UNCHANGED <<formVars, genVars, validationError, mounted, upVars, codes, viewVars>>

\* The .catch of decodeFromConstraints: the stream of a run cannot be opened.
\* setIsCameraActive(false) and the message, whichever run it was; they are
\* without effect once the component is unmounted.
cameraDenied ==
  /\ NoReactionPending
  /\ \E i \in 1..Len(sessions) :
       /\ sessions[i].stream = "pending"
       /\ sessions' = cameraEffect([sessions EXCEPT ![i].stream = "denied"],
                                   mounted /\ isCameraActive, FALSE)
  /\ isCameraActive' = FALSE
  /\ validationError' = IF mounted THEN MsgCameraDenied ELSE validationError
  /\ threw' = "none"
  /\ UNCHANGED <<formVars, genVars, scanVars, mounted, upVars, codes, viewVars>>

\* The component is unmounted: React runs the cleanup of the camera effect
\* and discards the state; what is still in flight finds nothing to update.
unmount ==
  /\ Interactive
  /\ mounted' = FALSE
  /\ sessions' = cameraEffect(sessions, isCameraActive, FALSE)
  /\ name' = "" /\ badge' = "" /\ role' = "" /\ evidenceSource' = ""
  /\ locationDetails' = ""
  /\ sections' = <<1>>
  /\ objs' = [o \in ObjIds |-> IF o = 1 THEN [title |-> "Evidence 1", content |-> ""]
                                         ELSE EmptySection]
  /\ loading' = FALSE /\ progress' = 0 /\ status' = 0
  /\ qrData' = "" /\ manifest' = Null
  /\ validationError' = ""
  /\ gen' = Null
  /\ scanInput' = "" /\ scanResult' = Null /\ analysisReport' = Null
  /\ isCameraActive' = FALSE /\ isAnalyzing' = FALSE
  /\ uploads' = <<>>
  /\ threw' = "none"
  /\ editsLeft' = 0
  /\ tab' = "generator" /\ viewerData' = Null /\ verifyStatus' = "idle"
  /\ UNCHANGED <<codes, reportParam>>

\* The link effect has yet to run: the page was loaded with a parameter r
\* and the effect, which React runs once after the first render, sets
\* verifyStatus whatever it finds.
LinkPending == reportParam # "" /\ verifyStatus = "idle"

\* useEffect(() => { const reportParam = params.get("r"); if (reportParam) ... }, [])
loadLink ==
  /\ mounted /\ LinkPending
  /\ tab' = "viewer"
  /\ \E out \in {linkEffect(reportParam)} :
       /\ verifyStatus' = out.verifyStatus
       /\ viewerData' = IF out.verifyStatus = "error" THEN viewerData ELSE out.pkg
  /\ threw' = "none"
  /\ UNCHANGED <<formVars, genVars, validationError, scanVars, camVars, upVars,
                 reportParam, codes>>

\* onClick of a tab button: setTab(t)
setTab ==
  /\ Interactive /\ ~LinkPending
  /\ \E t \in {"generator", "scanner", "insights"} : tab' = t
  /\ threw' = "none"
  /\ UNCHANGED <<formVars, genVars, validationError, scanVars, camVars, upVars,
                 viewerData, verifyStatus, reportParam, codes>>

\* onClick of the button that closes the viewer: setTab("generator"),
\* setViewerData(null)
closeViewer ==
  /\ Interactive /\ ~LinkPending
  /\ tab = "viewer" /\ viewerData # Null
  /\ tab' = "generator"
  /\ viewerData' = Null
  /\ threw' = "none"
  /\ UNCHANGED <<formVars, genVars, validationError, scanVars, camVars, upVars,
                 verifyStatus, reportParam, codes>>

\* onClick of the analyze button: processScan() on scanInput
analyzeClick ==
  /\ Interactive
  /\ ProcessScan(scanInput, isCameraActive)
  /\ UNCHANGED <<formVars, genVars, validationError, scanInput, camVars, upVars, codes, viewVars>>

\* The strategies of tryDecode, in the order the code tries them:
\* 1 ZXing on the padded canvas, 2 jsQR on the padded canvas, 3 jsQR on the
\* scaled, contrast-enhanced canvas.
StrategyCount == 3

\* What one decode attempt may report: a text, no code found, or an
\* exception of the engine.
AttemptResults == {"text", "noMatch", "error"}

\* handleFileUpload with a file chosen, while fewer than limit uploads are in
\* flight: the synchronous part.  The field overtaken of an upload is no
\* state of the component: it records that an upload started later has run
\* its reactions already.
startUpload(limit) ==
  /\ Interactive
  /\ Len(uploads) < limit
  /\ validationError' = ""
  /\ scanResult' = Null
  /\ scanInput' = ""
  /\ uploads' = Append(uploads, [pc |-> "loading", cameraActive |-> isCameraActive,
                                 text |-> "", attempts |-> <<>>, overtaken |-> FALSE])
  /\ threw' = "none"
  /\ UNCHANGED <<formVars, genVars, analysisReport, camVars, isAnalyzing, codes, viewVars>>

handleFileUpload == startUpload(MaxUploads)

\* reader.onload and img.onload: setIsAnalyzing(true), the canvas is drawn and
\* tryDecode starts its first attempt.
imgOnload ==
  \E u \in 1..Len(uploads) :
    /\ Interactive
    /\ uploads[u].pc = "loading"
    /\ uploads' = [uploads EXCEPT ![u].pc = "decoding"]
    /\ isAnalyzing' = TRUE
    /\ threw' = "none"
    /\ UNCHANGED <<formVars, genVars, validationError, scanVars, camVars, codes, viewVars>>

\* The attempts tryDecode makes when its strategies would report r1, r2, r3:
\* the ZXing attempt, then in its catch block jsQR on the padded canvas and,
\* when that finds no code, jsQR on the scaled canvas.  An exception inside
\* the catch block leaves tryDecode.
\* A pipeline that runs every strategy whatever the earlier ones reported.
tryDecodeAttemptsAll(r1, r2, r3) ==
  <<[strategy |-> 1, result |-> r1], [strategy |-> 2, result |-> r2],
    [strategy |-> 3, result |-> r3]>>

tryDecodeAttempts(r1, r2, r3) ==
  IF r1 = "text" THEN <<[strategy |-> 1, result |-> r1]>>
  ELSE IF r2 # "noMatch"
       THEN <<[strategy |-> 1, result |-> r1], [strategy |-> 2, result |-> r2]>>
       ELSE <<[strategy |-> 1, result |-> r1], [strategy |-> 2, result |-> r2],
              [strategy |-> 3, result |-> r3]>>

\* tryDecode settles: its promise resolves with the text of the last attempt
\* or rejects.
tryDecode ==
  \E u \in 1..Len(uploads) : \E r1, r2, r3 \in AttemptResults :
    LET attempts == tryDecodeAttempts(r1, r2, r3)
        last     == attempts[Len(attempts)].result
    IN  /\ Interactive
        /\ uploads[u].pc = "decoding"
        /\ \E text \in (IF last = "text" THEN ScanTexts ELSE {""}) :
             uploads' = [uploads EXCEPT
                           ![u].attempts = attempts,
                           ![u].pc   = IF last = "text" THEN "resolved" ELSE "rejected",
                           ![u].text = text]
        /\ threw' = "none"
        /\ UNCHANGED <<formVars, genVars, validationError, scanVars, camVars, isAnalyzing, codes, viewVars>>

\* A handler of the promise chain has run on the upload up: the chain goes on
\* to .finally when the handler returned and to .catch when it threw.  The
\* value tryDecode settled with is consumed.
Settle(up, returned) ==
  [up EXCEPT !.pc = IF returned THEN "settled" ELSE "rejected",
             !.text = "", !.attempts = <<>>]

\* The uploads after .then or .catch has run on the upload u: u is settled,
\* the uploads started before it are overtaken.
Reacted(u, returned) ==
  [i \in 1..Len(uploads) |->
     IF i = u THEN Settle(uploads[i], returned)
     ELSE IF i < u THEN [uploads[i] EXCEPT !.overtaken = TRUE]
     ELSE uploads[i]]

\* .then((text) => { setScanInput(text); processScan(text); playBeep(); }):
\* an exception of processScan rejects the chain.
uploadThen ==
  \E u \in 1..Len(uploads) :
    /\ uploads[u].pc = "resolved"
    /\ scanInput' = uploads[u].text
    /\ ProcessScan(uploads[u].text, uploads[u].cameraActive)
    /\ uploads' = Reacted(u, threw' = "none")
    /\ UNCHANGED <<formVars, genVars, validationError, camVars, isAnalyzing, codes, viewVars>>

\* A .catch that leaves the analysis report of an earlier scan in place.
uploadCatchKeepsReport ==
  \E u \in 1..Len(uploads) :
    /\ uploads[u].pc = "rejected"
    /\ validationError' = MsgDecodeFailure
    /\ scanResult' = Null
    /\ uploads' = Reacted(u, TRUE)
    /\ threw' = "none"
    /\ UNCHANGED <<formVars, genVars, scanInput, analysisReport, camVars, isAnalyzing, codes, viewVars>>

\* .catch(() => { setValidationError(..); setAnalysisReport(null); setScanResult(null); })
uploadCatch ==
  \E u \in 1..Len(uploads) :
    /\ uploads[u].pc = "rejected"
    /\ validationError' = MsgDecodeFailure
    /\ analysisReport' = Null
    /\ scanResult' = Null
    /\ uploads' = Reacted(u, TRUE)
    /\ threw' = "none"
    /\ UNCHANGED <<formVars, genVars, scanInput, camVars, isAnalyzing, codes, viewVars>>

\* .finally(() => setIsAnalyzing(false)); the run is over.
uploadFinally ==
  \E u \in 1..Len(uploads) :
    /\ uploads[u].pc = "settled"
    /\ isAnalyzing' = FALSE
    /\ uploads' = SubSeq(uploads, 1, u - 1) \o SubSeq(uploads, u + 1, Len(uploads))
    /\ threw' = "none"
    /\ UNCHANGED <<formVars, genVars, validationError, scanVars, camVars, codes, viewVars>>

\* What the scanner tab renders: the card 'QR CODE CORRUPTED' with the
\* failure report, {validationError && (..)}, and the analysis report,
\* {analysisReport && !validationError && (..)}.
FailureCardShown == validationError # ""

ReportShown == analysisReport # Null /\ validationError = ""

(***************************************************************************)
(* The specifications                                                      *)
(***************************************************************************)
\* The whole component.
Next ==
  \/ setName \/ setBadge \/ setRole \/ setEvidenceSource \/ selectLocation
  \/ setLocationDetails \/ setSectionTitle \/ setSectionContent
  \/ addSection \/ removeSection
  \/ generatePackage \/ generateStep \/ generateSeal \/ clearForm
  \/ startCamera \/ stopCamera \/ switchCamera \/ cameraAcquired \/ cameraOpened
  \/ cameraDecode \/ cameraDenied \/ analyzeClick
  \/ handleFileUpload \/ imgOnload \/ tryDecode \/ uploadThen \/ uploadCatch
  \/ uploadFinally \/ unmount \/ loadLink \/ setTab \/ closeViewer

Spec == Init /\ [][Next]_vars

\* The generator alone: the behaviours in which the scanner tab is not used.
InitGenerator ==
  Constructed /\ editsLeft = MaxEditsGenerator /\ codes = {} /\ reportParam = ""

NextGenerator ==
  \/ setName \/ setBadge \/ setRole \/ setEvidenceSource \/ selectLocation
  \/ setLocationDetails \/ setSectionTitle \/ setSectionContent
  \/ addSection \/ removeSection
  \/ generatePackage \/ generateStep \/ generateSeal \/ clearForm

SpecGenerator == InitGenerator /\ [][NextGenerator]_vars

\* The scanner alone: the behaviours in which the generator tab is not used
\* and the codes scanned were sealed before.
InitScanner ==
  Constructed /\ editsLeft = 0 /\ codes = ScannerCodes /\ reportParam = ""

NextScanner ==
  \/ startCamera \/ stopCamera \/ cameraAcquired \/ cameraOpened \/ cameraDecode
  \/ cameraDenied \/ analyzeClick
  \/ handleFileUpload \/ imgOnload \/ tryDecode \/ uploadThen \/ uploadCatch
  \/ uploadFinally

SpecScanner == InitScanner /\ [][NextScanner]_vars

\* The image intake alone: the behaviours of the scanner in which the camera
\* and the analyze button are not used.
NextUpload ==
  \/ handleFileUpload \/ imgOnload \/ tryDecode \/ uploadThen \/ uploadCatch
  \/ uploadFinally

SpecUpload == InitScanner /\ [][NextUpload]_vars

\* The image intake with uploads that overlap: a file is chosen while the
\* image chosen before is still being read or decoded.
NextOverlap ==
  \/ startUpload(MaxOverlap) \/ imgOnload \/ tryDecode \/ uploadThen \/ uploadCatch
  \/ uploadFinally

SpecOverlap == InitScanner /\ [][NextOverlap]_vars

\* The scanner on arbitrary texts: a sealed report, URLs, JSON, a script URI,
\* an encoded blob, plain and blank text.
InitAnalysis ==
  Constructed /\ editsLeft = 0 /\ codes = AnalysisCodes /\ reportParam = ""

SpecAnalysis == InitAnalysis /\ [][NextScanner]_vars

\* The scanner on a sealed report, a plain text and a blank text: the
\* behaviours in which a blank text is scanned before or after another one.
BlankCodes == {SealedReport[Scenario1], TextPlain, TextBlank}

InitBlank == Constructed /\ editsLeft = 0 /\ codes = BlankCodes /\ reportParam = ""

SpecBlank == InitBlank /\ [][NextScanner]_vars

\* The scanner on reports of generatePackage as sealed.
InitSealed ==
  /\ Constructed /\ editsLeft = 0 /\ reportParam = ""
  /\ codes = {SealedReport[p] : p \in SamplePackages} \cup {LabelReport}

SpecSealed == InitSealed /\ [][NextScanner]_vars

\* The camera alone: the behaviours of the scanner in which no image is
\* uploaded, from the first camera session to the unmounting of the component.
NextCamera ==
  \/ startCamera \/ stopCamera \/ switchCamera \/ cameraAcquired \/ cameraOpened
  \/ cameraDecode \/ cameraDenied \/ unmount

SpecCamera == InitScanner /\ [][NextCamera]_vars

\* The page loaded through a link: the link effect, the tabs, the viewer.
InitLink == Constructed /\ editsLeft = 0 /\ codes = {} /\ reportParam \in LinkParams

NextLink == loadLink \/ setTab \/ closeViewer \/ unmount

SpecLink == InitLink /\ [][NextLink]_vars

(***************************************************************************)
(* Properties                                                              *)
(***************************************************************************)
\* scanInput is t and scanResult is what processScan(t) set: scanInput is
\* only ever set together with a processScan of the same text, and a blank
\* text or a throwing getValue leaves the scanResult of an earlier scan.
Scanned(t) ==
  /\ scanInput = t
  /\ scanResult # Null
  /\ parsedOf(t).kind \in {"valid", "raw"}

\* The digest of the canonical serialization of reconstructed fields.
RecomputedDigest(data) == SHA256(JSONStringify(data))

Raw(t) == [type |-> "raw", data |-> t]

HasFourMarkers(t) ==
  /\ includes(t, MarkerFamily)
  /\ includes(t, MarkerManifest)
  /\ includes(t, MarkerSignature)
  /\ includes(t, MarkerHashLabel)

\* C1: whenever processScan recognized a package (scanResult.type = 'valid'),
\* the trust status is TRUSTED exactly when the digest recomputed from the
\* reconstructed fields equals the embedded digest, and TAMPERED when the two
\* differ.
C1_TrustedIffDigestMatches ==
  scanResult.type = "valid" =>
    /\ analysisReport.type = "report"
    /\ (analysisReport.trustStatus = "TRUSTED SEAL")
         <=> (RecomputedDigest(scanResult.data) = scanResult.hash)
    /\ RecomputedDigest(scanResult.data) # scanResult.hash
         => analysisReport.trustStatus = "TAMPERED PACKAGE"

\* A report with its manifest content changed was scanned, is recognized and
\* carries the TRUSTED status although the recomputed digest differs.
C1_Reached ==
  /\ Scanned(TamperedContent)
  /\ scanResult.type = "valid"
  /\ analysisReport.trustStatus = "TRUSTED SEAL"
  /\ RecomputedDigest(scanResult.data) # scanResult.hash

\* C2: a report of generatePackage with one character of a scalar-field line
\* or of the manifest changed, once scanned, has the status TAMPERED and the
\* classification 'PHANIX Secure Package'.
C2_TamperedReportIsTampered ==
  \A t \in TamperedReports :
    Scanned(t) =>
      /\ analysisReport.type = "report"
      /\ analysisReport.trustStatus = "TAMPERED PACKAGE"
      /\ analysisReport.classification = "PHANIX Secure Package"

\* The report with the operator name changed was scanned and is TRUSTED.
C2_Reached ==
  /\ Scanned(TamperedName)
  /\ analysisReport.type = "report"
  /\ analysisReport.trustStatus = "TRUSTED SEAL"

\* C3: scanning the report generatePackage formats for a package reconstructs
\* the trimmed operator name, badge, role, evidence source and the id, the
\* canonical section list, and the digest generated for the package.
C3_RoundTrip ==
  \A p \in SamplePackages :
    Scanned(SealedReport[p]) =>
      LET canon == payload(p.form, p.id, p.timestamp)
      IN  /\ scanResult.type = "valid"
          /\ scanResult.data.op = canon.op
          /\ scanResult.data.bid = canon.bid
          /\ scanResult.data.role = canon.role
          /\ scanResult.data.src = canon.src
          /\ scanResult.data.uid = canon.uid
          /\ scanResult.data.sec = canon.sec
          /\ scanResult.hash = packageHash(p.form, p.id, p.timestamp)

\* The Scenario 1 report was scanned and its one section came back with
\* another content than the canonical one.
C3_Reached ==
  /\ Scanned(SealedReport[Scenario1])
  /\ scanResult.type = "valid"
  /\ Len(scanResult.data.sec) = 1
  /\ scanResult.data.sec[1].content
       # payload(FormScenario1, Scenario1.id, Scenario1.timestamp).sec[1].content

\* C4: for a report of generatePackage scanned unmodified, the digest of the
\* canonical serialization of the fields processScan reconstructs equals the
\* digest embedded in the report.
C4_DigestStable ==
  \A p \in SamplePackages :
    (Scanned(SealedReport[p]) /\ scanResult.type = "valid") =>
      RecomputedDigest(scanResult.data) = scanResult.hash

\* The Scenario 1 report was scanned unmodified, the embedded digest was
\* extracted as sealed, and the reconstructed timestamp is not the sealed one.
C4_Reached ==
  /\ Scanned(SealedReport[Scenario1])
  /\ scanResult.type = "valid"
  /\ scanResult.hash = packageHash(FormScenario1, Scenario1.id, Scenario1.timestamp)
  /\ scanResult.data.ts # Scenario1.timestamp

\* C5: a scanned text that lacks one of the four markers is classified
\* Unrecognized: scanResult is the raw form carrying the text.
C5_FourMarkersRequired ==
  \A t \in ScanTexts :
    (Scanned(t) /\ ~HasFourMarkers(t)) => scanResult = Raw(t)

\* A text without the manifest marker was scanned and is a recognized package.
C5_Reached ==
  /\ Scanned(TextNoManifest)
  /\ ~includes(TextNoManifest, MarkerManifest)
  /\ scanResult.type = "valid"

\* C6: for a scanned text without the format-family marker (and not blank),
\* processScan did not throw, scanResult is the raw form carrying the text and
\* there is an AnalysisReport for that text.
C6_UnrecognizedPassthrough ==
  \A t \in ScanTexts :
    (scanInput = t /\ trim(t) # "" /\ ~includes(t, MarkerFamily)) =>
      /\ threw = "none"
      /\ scanResult # Null =>
           /\ scanResult = Raw(t)
           /\ analysisReport.type = "report"
           /\ analysisReport.hash = SHA256(t)

\* A plain text was scanned: the handler ended with a ReferenceError and there
\* is no AnalysisReport.
C6_Reached ==
  /\ Scanned(TextPlain)
  /\ threw = "ReferenceError"
  /\ analysisReport = Null

\* The text matches the markers processScan tests and no package id or no
\* digest comes out of it.
Unidentified(t) ==
  /\ isPhanix(t)
  /\ parsedOf(t).kind \in {"raw", "typeError"}

\* C7: for a scanned text that matches the recognition markers and yields no
\* package id or no digest, processScan did not throw, scanResult is the raw
\* form carrying the whole text, and the AnalysisReport carries neither the
\* TRUSTED status nor the PHANIX classification.
C7_MarkersWithoutIdDegrade ==
  \A t \in ScanTexts :
    (scanInput = t /\ Unidentified(t)) =>
      /\ threw = "none"
      /\ scanResult # Null => scanResult = Raw(t)
      /\ analysisReport.type = "report" =>
           /\ analysisReport.trustStatus # "TRUSTED SEAL"
           /\ analysisReport.classification # "PHANIX Secure Package"

\* A text with the markers and a CASE ID line without a colon was scanned:
\* the handler ended with a TypeError.
C7_Reached ==
  /\ scanInput = TextNoColon
  /\ threw = "TypeError"

\* A required field of the form is blank after trimming.
AnyRequiredBlank(n, b, r, e) ==
  trim(n) = "" \/ trim(b) = "" \/ trim(r) = "" \/ trim(e) = ""

\* C8: a click on GENERATE with a required field blank after trimming sets
\* the validation message and leaves qrData, manifest, loading and progress
\* unchanged; a generation runs, and a package is stored, only for a form
\* whose four required fields were all non-blank at the click.
C8_ValidationGuardsGeneration ==
  /\ [](gen # Null =>
          ~AnyRequiredBlank(gen.name, gen.badge, gen.role, gen.evidenceSource))
  /\ [][/\ (generatePackage /\ AnyRequiredBlank(name, badge, role, evidenceSource))
             => /\ validationError' = MsgRequiredFields
                /\ UNCHANGED <<qrData, manifest, loading, progress>>
        /\ (qrData' # qrData /\ qrData' # "")
             => /\ gen # Null
                /\ ~AnyRequiredBlank(gen.name, gen.badge, gen.role, gen.evidenceSource)
        /\ (loading' /\ ~loading)
             => ~AnyRequiredBlank(name, badge, role, evidenceSource)]_vars

\* With a package on display, a click on GENERATE with a blank required field
\* was refused: the message is set, the package and the progress are as they
\* were.
C8_Reached ==
  /\ validationError = MsgRequiredFields
  /\ AnyRequiredBlank(name, badge, role, evidenceSource)
  /\ qrData # "" /\ manifest # Null
  /\ ~loading /\ progress = StepCount * ProgressPerStep

\* The form f with the leading and trailing whitespace of its operator name,
\* badge, role, evidence source, section titles and section contents removed
\* and its section titles in upper case.
TrimmedForm(f) ==
  [name |-> trim(f.name), badge |-> trim(f.badge), role |-> trim(f.role),
   evidenceSource |-> trim(f.evidenceSource),
   locationDetails |-> f.locationDetails,
   sections |-> [i \in 1..Len(f.sections) |->
                   [title   |-> toUpperCase(trim(f.sections[i].title)),
                    content |-> trim(f.sections[i].content)]]]

\* The form a running generation works on.
GenForm ==
  FormOf(gen.name, gen.badge, gen.role, gen.evidenceSource, gen.locationDetails,
         gen.sections)

\* C9: the form of a generation and the same form without its leading and
\* trailing whitespace and with upper-case titles have, for the same id and
\* timestamp, the same canonical payload string and the same digest.
C9_CanonicalizationInvariance ==
  gen # Null =>
    \A id \in Ids, ts \in Timestamps :
      /\ payloadString(GenForm, id, ts) = payloadString(TrimmedForm(GenForm), id, ts)
      /\ packageHash(GenForm, id, ts) = packageHash(TrimmedForm(GenForm), id, ts)

\* A generation runs on a form whose evidence source ends with a blank and
\* has location details.
C9_Reached ==
  /\ gen # Null
  /\ gen.evidenceSource # trim(gen.evidenceSource)
  /\ gen.locationDetails # ""

\* C10: the attempts of one upload are those of strategies 1, 2, .. in this
\* order, at most StrategyCount of them; every attempt but the last reported
\* a failure (no match or engine error), so nothing is tried after a text.
C10_DecodePipeline ==
  \A u \in 1..Len(uploads) :
    LET a == uploads[u].attempts
    IN  /\ Len(a) <= StrategyCount
        /\ \A i \in 1..Len(a) :
             /\ a[i].strategy = i
             /\ i < Len(a) => a[i].result \in {"noMatch", "error"}
        /\ uploads[u].pc = "resolved" => (Len(a) > 0 /\ a[Len(a)].result = "text")

\* All the strategies were tried on one image: the first ended with an engine
\* error, the second found no code, the last returned the text.
C10_Reached ==
  \E u \in 1..Len(uploads) :
    /\ uploads[u].pc = "resolved"
    /\ Len(uploads[u].attempts) = StrategyCount
    /\ uploads[u].attempts[1].result = "error"
    /\ uploads[u].attempts[2].result = "noMatch"
    /\ uploads[u].attempts[StrategyCount].result = "text"
    /\ uploads[u].text # ""

\* The upload u is in the reactions of its promise chain.
InReaction(u) == uploads[u].pc \in {"resolved", "rejected", "settled"}

\* C11: an upload whose decode pipeline returned a text ends in the success
\* outcome: the reaction to the text leaves the chain on its way to .finally
\* with the text in scanInput and processed, and not on its way to .catch
\* with the decode-failure message.
C11_TextMeansSuccess ==
  [][\A u \in 1..Len(uploads) :
       uploads[u].pc = "resolved" =>
         /\ Len(uploads') = Len(uploads)
         /\ uploads'[u].pc = "settled"
         /\ scanInput' = uploads[u].text
         /\ trim(uploads[u].text) # "" => scanResult' # Null]_vars

\* An image decoded to a plain text, the text was put into scanInput, and the
\* run ended with the decode-failure message and the results cleared.
C11_Reached ==
  /\ scanInput = TextPlain
  /\ validationError = MsgDecodeFailure
  /\ scanResult = Null /\ analysisReport = Null
  /\ uploads = <<>>

\* C12: an upload all of whose strategies failed goes through .catch (the
\* decode-failure message is set, scanResult and analysisReport are null) and
\* .finally (isAnalyzing is false, the run is over); once tryDecode has
\* settled, the upload never decodes again.
C12_ExhaustedIsTerminal ==
  [][\A u \in 1..Len(uploads) :
       /\ (InReaction(u) /\ Len(uploads') = Len(uploads))
            => uploads'[u].pc \in {"rejected", "settled"}
       /\ uploads[u].pc = "rejected"
            => /\ Len(uploads') = Len(uploads)
               /\ uploads'[u].pc = "settled" /\ uploads'[u].attempts = <<>>
               /\ validationError' = MsgDecodeFailure
               /\ scanResult' = Null /\ analysisReport' = Null
       /\ uploads[u].pc = "settled"
            => /\ Len(uploads') = Len(uploads) - 1
               /\ ~isAnalyzing'
               /\ validationError' = validationError
               /\ scanResult' = scanResult /\ analysisReport' = analysisReport]_vars

\* After an earlier upload had produced an analysis report, every strategy
\* failed on an image: the outcome is the decode failure, nothing is in flight.
C12_Reached ==
  /\ scanInput = ""
  /\ validationError = MsgDecodeFailure
  /\ scanResult = Null /\ analysisReport = Null
  /\ ~isAnalyzing
  /\ uploads = <<>>

\* The runs of the camera effect whose cleanup has not run.
Current == {i \in 1..Len(sessions) : ~sessions[i].cleaned}

IsUrlText(t)    == startsWith(t, "http://") \/ startsWith(t, "https://")
IsJsonText(t)   == startsWith(trim(t), "{") /\ endsWith(trim(t), "}")
IsSchemeText(t) == \E sch \in {"javascript:", "data:", "file:", "tel:"} : startsWith(t, sch)
IsBlobText(t)   == t = TextBlob

\* The classification of the text t agrees with the first class that matches.
ClassifiedByPrecedence(t, classification) ==
  IF parsedOf(t).kind = "valid" THEN classification = "PHANIX Secure Package"
  ELSE IF IsUrlText(t) THEN classification = "URL / Web Resource"
  ELSE IF IsJsonText(t) THEN classification = "JSON / Structured Payload"
  ELSE IF IsSchemeText(t) \/ IsBlobText(t)
  THEN classification \notin {"PHANIX Secure Package", "URL / Web Resource",
                              "JSON / Structured Payload", "Generic Data / Plaintext"}
  ELSE classification = "Generic Data / Plaintext"

\* C14: a scanned text has an analysis report whose classification is that of
\* the first class it matches, in the order PHANIX package, URL, JSON,
\* suspicious URI scheme, encoded blob, generic plaintext.
C14_ClassificationPrecedence ==
  \A t \in AnalysisCodes :
    Scanned(t) =>
      /\ analysisReport # Null
      /\ ClassifiedByPrecedence(t, analysisReport.classification)

\* A script URI was scanned after a sealed report: the report on display is
\* still the one of the sealed report, and the scan ended with an exception.
C14_Reached ==
  /\ Scanned(TextScheme)
  /\ threw = "ReferenceError"
  /\ analysisReport # Null /\ analysisReport.classification = "PHANIX Secure Package"

\* C15: the scanned text "http://192.168.1.5/login" has an analysis report
\* with the classification 'URL / Web Resource', a risk level above LOW and
\* an indicator that mentions the IP-based URL.
C15_IpUrlElevated ==
  Scanned(TextIpUrl) =>
    /\ analysisReport # Null
    /\ analysisReport.classification = "URL / Web Resource"
    /\ analysisReport.riskLevel # "LOW"
    /\ \E k \in 1..Len(analysisReport.indicators) :
         includes(analysisReport.indicators[k], "IP-based URL")

\* The IP-literal URL was scanned, the scan ended with an exception and there
\* is no analysis report.
C15_Reached ==
  /\ Scanned(TextIpUrl)
  /\ threw = "ReferenceError"
  /\ analysisReport = Null

\* C16: processScan on a blank content changes neither scanResult nor
\* analysisReport and ends without an exception, whether the camera callback,
\* the reaction to an uploaded image or the analyze button called it.
C16_BlankScanIsNoOp ==
  [][(/\ scanInput' = TextBlank
      /\ NoReactionPending \/ \E u \in 1..Len(uploads) : uploads[u].pc = "resolved")
       => /\ scanResult' = scanResult
          /\ analysisReport' = analysisReport
          /\ threw' = "none"]_vars

\* A blank text was scanned after a sealed report: the result and the report
\* of the sealed report are still there.
C16_Reached ==
  /\ scanInput = TextBlank
  /\ scanResult # Null /\ scanResult.type = "valid"
  /\ analysisReport # Null /\ analysisReport.trustStatus = "TRUSTED SEAL"

\* The sealed report of the form whose operator name holds a colon.
ColonReport == SealedReport[CHOOSE p \in SamplePackages : p.form = FormColon]

\* The value of the 'LABEL : VALUE' line of a label: what follows the first
\* colon of the line, trimmed; "" when there is no such line.
ValueOfLine(lines, label) ==
  LET i == findIndex(lines, label)
  IN  IF i = 0 THEN ""
      ELSE trim(SubSeq(lines[i], indexOf(lines[i], ":") + 1, Len(lines[i])))

\* C18: each scalar field extracted from a scanned sealed report is the whole
\* of its line after the first colon, trimmed, colons of the value included.
C18_ValueIsRemainder ==
  \A p \in SamplePackages :
    Scanned(SealedReport[p]) =>
      LET lines == split(SealedReport[p], "\n")
      IN  /\ scanResult.type = "valid"
          /\ scanResult.data.uid  = ValueOfLine(lines, "CASE ID")
          /\ scanResult.data.op   = ValueOfLine(lines, "OPERATOR NAME")
          /\ scanResult.data.bid  = ValueOfLine(lines, "BADGE ID")
          /\ scanResult.data.role = ValueOfLine(lines, "ROLE")
          /\ scanResult.data.src  = ValueOfLine(lines, "EVIDENCE FROM")

\* The report of operator 'Dr: Who' was scanned: the operator extracted is 'Dr'.
C18_Reached ==
  /\ Scanned(ColonReport)
  /\ scanResult.type = "valid"
  /\ scanResult.data.op = "Dr"

\* C19: the timestamp extracted from a scanned sealed report is the value of
\* its REF-TS line when that value is not empty, and the value of its
\* TIMESTAMP line otherwise.
C19_RawTimestampPreferred ==
  \A p \in SamplePackages :
    Scanned(SealedReport[p]) =>
      LET lines == split(SealedReport[p], "\n")
      IN  /\ scanResult.type = "valid"
          /\ scanResult.data.ts = IF ValueOfLine(lines, "REF-TS") # ""
                                  THEN ValueOfLine(lines, "REF-TS")
                                  ELSE ValueOfLine(lines, "TIMESTAMP")

\* The Scenario 1 report was scanned: the timestamp extracted is the REF-TS
\* value up to its second colon.
C19_Reached ==
  /\ Scanned(SealedReport[Scenario1])
  /\ scanResult.type = "valid"
  /\ ValueOfLine(split(scanInput, "\n"), "REF-TS") = "2026-01-02T15:04:05.000Z"
  /\ scanResult.data.ts = "2026-01-02T15"

\* The heading lines of the manifest window of a report, in order.
HeadingLines(lines) ==
  LET manifestStart == findIndex(lines, MarkerManifest)
      sigStart      == findIndex(lines, MarkerSignature)
      IsHeading(l)  == startsWith(trim(l), "#") /\ includes(l, "::")
  IN  SelectSeq(SubSeq(lines, manifestStart + 1, sigStart - 1), IsHeading)

\* C20: the sections extracted from a scanned sealed report are as many as
\* the heading lines between the manifest marker and the signature marker,
\* one for each heading in order, titled as the heading.
C20_OneSectionPerHeading ==
  \A p \in SamplePackages :
    Scanned(SealedReport[p]) =>
      LET headings == HeadingLines(split(SealedReport[p], "\n"))
      IN  /\ scanResult.type = "valid"
          /\ Len(scanResult.data.sec) = Len(headings)
          /\ \A k \in 1..Len(headings) :
               includes(headings[k], scanResult.data.sec[k].title)

\* The report with an untitled section was scanned: three heading lines in
\* the window, two sections extracted.
C20_Reached ==
  /\ Scanned(ColonReport)
  /\ scanResult.type = "valid"
  /\ Len(HeadingLines(split(scanInput, "\n"))) = 3
  /\ Len(scanResult.data.sec) = 2

\* The value the parameter r decodes and parses to; ok is FALSE when it
\* cannot be decoded or parsed.
ParsedPayload(r) ==
  LET parse(decoded) == IF decoded.ok THEN JSONParse(decoded.s)
                        ELSE [ok |-> FALSE, v |-> Undefined]
  IN  parse(Utf8Stringify(Base64Parse(r)))

\* The SHA-256 of the serialized data of the package equals its embedded hash.
DigestAgrees(pkg) ==
  LET same(hash, digest) == hash = [type |-> "string", s |-> digest]
  IN  same(Property(pkg, "hash"), SHA256(JSONStringifyValue(Property(pkg, "data"))))

\* The status the link effect is to end in: 'error' for a payload that cannot
\* be decoded or parsed to a value with properties (any value but null),
\* 'valid' or 'invalid' as the digest agrees.
StatusOf(parsed) ==
  IF ~parsed.ok \/ parsed.v = Null THEN "error"
  ELSE IF DigestAgrees(parsed.v) THEN "valid" ELSE "invalid"

\* C17: the link effect, for the parameter r of the page, selects the viewer
\* tab and ends without an exception in 'valid' when the payload parses and
\* its digest agrees with its hash, in 'invalid' when it parses and they
\* differ, and in 'error', with viewerData null, when it cannot be decoded or
\* parsed; viewerData is the parsed payload otherwise.
C17_LinkVerification ==
  /\ [](verifyStatus # "idle" =>
          /\ threw = "none"
          /\ verifyStatus = StatusOf(ParsedPayload(reportParam))
          /\ verifyStatus = "error" => viewerData = Null)
  /\ [][(verifyStatus = "idle" /\ verifyStatus' # "idle") =>
          /\ tab' = "viewer"
          /\ verifyStatus' # "error" => viewerData' = ParsedPayload(reportParam).v]_vars

\* The page was loaded with a payload that breaks off in the middle of the
\* JSON text: the viewer tab is selected, the status is 'error', no data.
C17_Reached ==
  /\ reportParam = LinkTruncated
  /\ tab = "viewer"
  /\ verifyStatus = "error"
  /\ viewerData = Null

\* The run s of the camera effect holds a capture: the browser has granted
\* it and it has not been stopped.
Holds(s) == s.stream \in {"acquired", "open"}

\* C29: at most one run of the camera effect holds a capture at any time.
C29_OneCaptureAtATime ==
  Cardinality({i \in 1..Len(sessions) : Holds(sessions[i])}) <= 1

\* The camera was switched while the capture of the first run was still being
\* asked for: the run that was switched away from and the current run both
\* hold a capture.
C29_Reached ==
  /\ isCameraActive /\ mounted
  /\ Len(sessions) = 2
  /\ sessions[1].cleaned /\ sessions[1].stream = "acquired"
  /\ ~sessions[2].cleaned /\ sessions[2].stream = "open"

\* The lines of the text hold the manifest marker before the signature marker
\* and, after it, the hash label on a line followed by a line that is digest.
WellFormedReport(t, digest) ==
  LET lines == split(t, "\n")
  IN  /\ includes(t, MarkerFamily)
      /\ \E m, g, h \in 1..Len(lines) :
           /\ m < g /\ g < h /\ h < Len(lines)
           /\ lines[m] = MarkerManifest
           /\ lines[g] = MarkerSignature
           /\ lines[h] = MarkerHashLabel
           /\ lines[h + 1] = digest

\* C21: a report generatePackage stores holds the format-family marker, the
\* manifest marker before the signature marker and the hash label line
\* followed by the digest on its own line, and such a report, scanned as
\* stored, is recognized: scanResult is a 'valid' one.
C21_GeneratedIsRecognized ==
  /\ \A p \in SamplePackages \cup {LabelPackage} :
       WellFormedReport(reportOf(p), packageHash(p.form, p.id, p.timestamp))
  /\ manifest # Null => WellFormedReport(qrData, manifest.hash)
  /\ \A t \in codes : Scanned(t) => scanResult.type = "valid"

\* The report of the form with the hash label in its section content was
\* scanned as sealed: it has the markers and its digest line, and the scan
\* result is the raw text.
C21_Reached ==
  /\ LabelReport \in codes
  /\ WellFormedReport(LabelReport, packageHash(FormLabel, LabelPackage.id, LabelPackage.timestamp))
  /\ Scanned(LabelReport)
  /\ scanResult = Raw(LabelReport)

\* C22: loading is true exactly while a generation runs, from the click that
\* passed the validation to the step that stores the package; while it is
\* true no other generation starts (the one that runs goes on step by step)
\* and the package on display is not cleared: qrData and manifest change only
\* in the step that ends the generation, which stores both.
C22_OneGenerationAtATime ==
  /\ [](loading <=> gen # Null)
  /\ [][/\ (~loading /\ loading') => (generatePackage /\ gen'.step = 1)
        /\ loading =>
             /\ gen' # Null =>
                  /\ loading'
                  /\ gen'.step \in {gen.step, gen.step + 1}
                  /\ [gen' EXCEPT !.step = gen.step] = gen
                  /\ qrData' = qrData /\ manifest' = manifest
             /\ gen' = Null =>
                  /\ ~loading'
                  /\ gen.step = StepCount
                  /\ qrData' # "" /\ manifest' # Null]_vars

\* With a package on display, a second generation is at its last step.
C22_Reached ==
  /\ loading /\ gen # Null /\ gen.step = StepCount
  /\ qrData # "" /\ manifest # Null

\* C23: a frame is decoded only while the camera is active and its stream is
\* open, and the decodeFromConstraints callback, whatever text the frame
\* decodes to, puts the text into scanInput, processes it without an
\* exception and ends the session: isCameraActive is false and no run of the
\* camera effect is left to read frames.
C23_DecodeEndsSession ==
  [][cameraDecode =>
       /\ isCameraActive /\ Streaming
       /\ scanInput' \in ScanTexts
       /\ threw' = "none"
       /\ ~isCameraActive'
       /\ ~Streaming']_vars

\* A frame decoded to a plain text: the callback ended with the ReferenceError
\* of the analysis and the camera session goes on reading frames.
C23_Reached ==
  /\ scanInput = TextPlain
  /\ threw = "ReferenceError"
  /\ isCameraActive /\ Streaming

\* C24: the start of an upload and the start of a camera session leave no
\* failure card of an earlier run on the scanner, and the analysis report of
\* a recognized package that a camera frame or an uploaded image decoded to
\* is shown.
C24_FreshRunStartsClean ==
  [][/\ (startCamera \/ handleFileUpload) => ~FailureCardShown'
     /\ ((cameraDecode \/ uploadThen) /\ parsedOf(scanInput').kind = "valid")
          => ReportShown']_vars

\* After an upload had ended in the decode failure, a camera session decoded
\* a sealed report: its analysis report is there, and the scanner shows the
\* failure card instead.
C24_Reached ==
  /\ scanInput = SealedReport[Scenario1]
  /\ analysisReport # Null /\ analysisReport.source = "LIVE_CAMERA_SCAN"
  /\ analysisReport.trustStatus = "TRUSTED SEAL"
  /\ validationError = MsgDecodeFailure
  /\ FailureCardShown /\ ~ReportShown
  /\ ~isCameraActive /\ uploads = <<>>

\* C27: the scanner shows the failure card only for the decode failure of an
\* uploaded image, and a refused generation or a camera-access error neither
\* brings the card up nor takes a shown analysis report away.
C27_FailureKindsDistinct ==
  /\ [](FailureCardShown => validationError = MsgDecodeFailure)
  /\ [][(generatePackage \/ cameraDenied) =>
          /\ ~FailureCardShown => ~FailureCardShown'
          /\ ReportShown => ReportShown']_vars

\* The camera could not be opened after a sealed report had been scanned: the
\* report is still there, hidden by the failure card.
C27_Reached ==
  /\ validationError = MsgCameraDenied
  /\ FailureCardShown
  /\ analysisReport # Null /\ analysisReport.trustStatus = "TRUSTED SEAL"
  /\ ~ReportShown

\* The analysis report r is the one performForensicAnalysis derives for the
\* text t.
ReportOfText(r, t) ==
  IF parsedOf(t).kind = "valid"
  THEN /\ r.classification = "PHANIX Secure Package"
       /\ r.hash = parsedOf(t).phanixData.hash
  ELSE /\ r.classification # "PHANIX Secure Package"
       /\ r.trustStatus # "TRUSTED SEAL"
       /\ r.hash = SHA256(t)

\* C25: scanResult and analysisReport are of the same scanned text: with a
\* scanResult there is the analysis report of the text it was made from, so
\* the PHANIX classification and the TRUSTED status come with a 'valid'
\* scanResult only, never with a raw one.
C25_ResultAndReportAgree ==
  scanResult # Null =>
    /\ analysisReport # Null
    /\ scanResult.type = "raw" => ReportOfText(analysisReport, scanResult.data)
    /\ scanResult.type = "valid" =>
         /\ analysisReport.classification = "PHANIX Secure Package"
         /\ analysisReport.hash = scanResult.hash

\* A plain text was scanned after a sealed report: scanResult is the raw text
\* and the analysis report is the TRUSTED one of the sealed report.
C25_Reached ==
  /\ scanInput = TextPlain
  /\ scanResult = Raw(TextPlain)
  /\ analysisReport # Null
  /\ analysisReport.trustStatus = "TRUSTED SEAL"
  /\ analysisReport.classification = "PHANIX Secure Package"

\* The line of the text that starts with the label, without the label.
LineAfter(text, label) ==
  LET lines == split(text, "\n")
      i     == CHOOSE k \in 1..Len(lines) :
                 /\ startsWith(lines[k], label)
                 /\ \A q \in 1..(k - 1) : ~startsWith(lines[q], label)
  IN  SubSeq(lines[i], Len(label) + 1, Len(lines[i]))

\* The line that follows the last hash label line of the text.
DigestLine(text) ==
  LET lines == split(text, "\n")
      h     == CHOOSE k \in 1..Len(lines) :
                 /\ lines[k] = MarkerHashLabel
                 /\ \A q \in (k + 1)..Len(lines) : lines[q] # MarkerHashLabel
  IN  lines[h + 1]

\* C26: qrData is not empty exactly when manifest is not null, and then the
\* id, the timestamp and the hash of the manifest are the CASE ID, the REF-TS
\* value and the digest line of the report in qrData.
C26_ManifestMatchesReport ==
  /\ (qrData # "") <=> (manifest # Null)
  /\ manifest # Null =>
       /\ LineAfter(qrData, "CASE ID   : ") = manifest.id
       /\ LineAfter(qrData, "REF-TS    : ") = manifest.timestamp
       /\ DigestLine(qrData) = manifest.hash

\* With a package on display and its manifest, a generation has started on a
\* form with another operator name.
C26_Reached ==
  /\ qrData # "" /\ manifest # Null
  /\ gen # Null /\ gen.step = 1
  /\ LineAfter(qrData, "OPERATOR NAME : ") # trim(gen.name)

\* What the generation of the closure g would seal for an id and a timestamp
\* with the section objects as they are in heap: the canonical payload.  The payload string, the digest and, with the id and
\* the timestamp, the report text are functions of it.
WouldSeal(g, heap, id, ts) ==
  payload([name |-> g.name, badge |-> g.badge, role |-> g.role,
           evidenceSource |-> g.evidenceSource, locationDetails |-> g.locationDetails,
           sections |-> [i \in 1..Len(g.sections) |-> heap[g.sections[i]]]],
          id, ts)

\* C30: while a generation runs, the form it will seal stays what it was at
\* the click: no step changes the canonical payload, and with it the digest,
\* or the report text that the generation would seal for an id and a
\* timestamp.
C30_SealsFormOfTheClick ==
  [][(gen # Null /\ gen' # Null) =>
       \A id \in Ids, ts \in Timestamps :
         WouldSeal(gen', objs', id, ts) = WouldSeal(gen, objs, id, ts)]_vars

\* A generation is past its first step, the form was edited after the click
\* (its operator name is not the one of the closure), and the section the
\* generation will seal holds typed content.
C30_Reached ==
  /\ gen # Null /\ gen.step > 1
  /\ gen.name # name
  /\ objs[gen.sections[1]].content = " bloodstain sample "

\* C28: the upload that writes its outcome (in .then or .catch) has not been
\* overtaken: no upload started after it has written its outcome before, so
\* that what remains in the end is the outcome of the upload started last;
\* and isAnalyzing is false only while no tryDecode is running.
C28_LatestUploadWins ==
  /\ [](~isAnalyzing => \A u \in 1..Len(uploads) : uploads[u].pc # "decoding")
  /\ [][\A u \in 1..Len(uploads) :
          uploads[u].pc \in {"resolved", "rejected"} => ~uploads[u].overtaken]_vars

\* The image chosen second decoded to a sealed report first; then every
\* strategy failed on the image chosen first, whose .catch has put the
\* decode failure in the place of the result of the second.
C28_Reached ==
  /\ Len(uploads) = 1
  /\ uploads[1].overtaken /\ uploads[1].pc = "settled"
  /\ validationError = MsgDecodeFailure
  /\ scanInput = SealedReport[Scenario1]
  /\ scanResult = Null /\ analysisReport = Null

=============================================================================
